---- MODULE Spec2Model ----
(***************************************************************************)
(* Model of the yoked_backend program service: program assignment          *)
(* (AssignProgramToUser, AuthHandler.Register), workout sessions and logs, *)
(* and the weight calculators (CalculateInitialWeights,                    *)
(* CalculateNextWorkoutWeights).  The relational store is modelled by its  *)
(* tables; every store call is one atomic step that may fail.              *)
(*                                                                         *)
(* Weights are kept in tenths of a kilogram (2.5 kg = 25), multipliers in  *)
(* hundredths (1.05 = 105), so that all arithmetic is exact.               *)
(***************************************************************************)
EXTENDS Integers, Sequences, FiniteSets, TLC

VARIABLES
    users,            \* table users: id -> row
    userPrograms,     \* table user_programs: sequence of rows, id = index
    workouts,         \* table workouts (sessions): sequence of rows, id = index
    workoutExercises, \* table workout_exercises (logs): sequence of rows
    liftedWeight,     \* per log: the weight the user really lifted (not stored by the program)
    now,              \* the wall clock, in ticks
    req,              \* per worker: the request being served and its locals
    workoutPlans,     \* workout service, table workouts: sequence of rows, id = index
    workoutSessions,  \* workout service, table workout_sessions: sequence of rows
    sessionExercises  \* workout service, table exercises: sequence of rows

\* the tables of the workout service
planVars == <<workoutPlans, workoutSessions, sessionExercises>>

vars == <<users, userPrograms, workouts, workoutExercises, liftedWeight, now, req, planVars>>

NoPlans == workoutPlans = <<>> /\ workoutSessions = <<>> /\ sessionExercises = <<>>

----------------------------------------------------------------------------
(* Bounds of the model *)

MaxUsers == 2
MaxUserPrograms == 3
MaxTime == 2
TicksPerDay == 2
MaxSessions == 3
MaxLogs == 3
MaxRequestLogs == 2
MaxPlans == 1
MaxPlanSessions == 1
MaxExercises == 1

Procs == {"p1", "p2"}
SeqProcs == {"p1"}
EmailList == <<"a@x", "b@x", "c@x", "d@x">>
Emails == {EmailList[i] : i \in 1..MaxUsers}
ProgramIds == {1, 2}

----------------------------------------------------------------------------
(* Errors.  ErrNoRows is the error pgx's QueryRow(...).Scan returns when   *)
(* the query selects no row; TolerableMessage is the text the service      *)
(* compares it with.                                                       *)

Nil == "nil"
ErrNoRows == "no rows in result set"
TolerableMessage == "sql: no rows in result set"
ErrStore == "store unavailable"
ErrNotFound == "user program not found"
ErrConflict == "User already exists with this email"
ErrNoSession == "no previous workout session found"
ErrUserNotFound == "user not found"
ErrUpdateUser == "failed to update user profile"
ErrWorkoutNotFound == "workout not found"
ErrSessionNotFound == "session not found"
ErrExerciseNotFound == "exercise not found"
ErrConstraint == "violates constraint"
ErrUnauthorized == "Invalid token"
ErrNegativeLimit == "LIMIT must not be negative"
ErrGetUser == "failed to get user"
ErrUserGone == "user not found or already deleted"
ErrGetWorkout == "failed to get workout"
ErrWorkoutGone == "workout not found or already deleted"
ErrAlreadyCompleted == "session already completed"
ErrName == "workout name is required"
ErrType == "invalid workout type"
ErrDuration == "duration must be between 1 and 52 weeks"
ErrDay == "day must be between 1 and 7"
ErrSets == "sets must be between 1 and 20"
ErrReps == "reps must be between 1 and 100"
ErrWeight == "weight must be between 0 and 1000"
ErrNoActive == "no active program found for user"

----------------------------------------------------------------------------
(* Requests *)

NoMap == "nil"
IsMap == "map"

Idle ==
    [op |-> "idle", pc |-> "idle", user |-> 0, program |-> 0, pw |-> 0,
     cur |-> 0, deactivated |-> 0, created |-> 0, at |-> 0, err |-> Nil,
     session |-> 0, map |-> NoMap, weights |-> <<>>, adjustments |-> <<>>,
     hadActive |-> FALSE, storeFailed |-> FALSE,
     updates |-> <<>>, before |-> <<>>, local |-> <<>>, arg |-> <<>>, caller |-> 0]

\* the gin context of the request of worker p: fresh but for the user id the
\* middleware has set
Context(p) == [Idle EXCEPT !.caller = req[p].caller]

AllIdle == \A q \in Procs : req[q].pc = "idle"

\* the deleted_at filter is missing
LiveUserMutant(u) == u \in DOMAIN users

\* GetUserByID: WHERE id = $1 AND deleted_at IS NULL
LiveUser(u) == u \in DOMAIN users /\ ~users[u].deleted

\* start_date is a DATE column: the time of day is dropped on insert.
DateOf(t) == t \div TicksPerDay

----------------------------------------------------------------------------
(* Table user_programs *)

ActiveIds(u) ==
    {i \in DOMAIN userPrograms :
        userPrograms[i].user_id = u /\ userPrograms[i].is_active}

\* the user_id filter of the query is dropped
GetUserActiveProgramMutant(u, fail) ==
    IF fail THEN {<<0, ErrStore>>}
    ELSE IF {i \in DOMAIN userPrograms : userPrograms[i].is_active} = {}
         THEN {<<0, ErrNoRows>>}
    ELSE {<<i, Nil>> : i \in {j \in DOMAIN userPrograms : userPrograms[j].is_active}}

\* The possible results <<id, err>> of GetUserActiveProgram: the query has no
\* ORDER BY, QueryRow takes the first row the store returns.
GetUserActiveProgram(u, fail) ==
    IF fail THEN {<<0, ErrStore>>}
    ELSE IF ActiveIds(u) = {} THEN {<<0, ErrNoRows>>}
    ELSE {<<i, Nil>> : i \in ActiveIds(u)}

\* UPDATE user_programs SET is_active = $1 WHERE id = $2
UpdateUserProgram(id, isActive) ==
    [userPrograms EXCEPT ![id].is_active = isActive]

RowsAffected(id) == IF id \in DOMAIN userPrograms THEN 1 ELSE 0

\* INSERT INTO user_programs ... ; user_id references users(id)
CreateUserProgramOk(u, fail) == ~fail /\ u \in DOMAIN users

NewUserProgram(u, prog, t) ==
    [user_id |-> u, program_id |-> prog, start_date |-> DateOf(t), is_active |-> TRUE]

CreateUserProgram(up) == Append(userPrograms, up)

----------------------------------------------------------------------------
(* AssignProgramToUser *)

\* line 80: a lookup error is fatal unless its text is TolerableMessage
LookupIsFatal(err) == err /= Nil /\ err /= TolerableMessage

\* line 85: currentProgram.IsActive = false
DeactivatedFlagMutant == TRUE

DeactivatedFlag == FALSE

\* lines 79-82: look up the active program
AssignGetActive(p, u, prog) ==
    /\ req[p].pc = "idle"
    /\ Len(userPrograms) < MaxUserPrograms
    /\ \E fail \in BOOLEAN :
         \E r \in GetUserActiveProgram(u, fail) :
            req' = [req EXCEPT ![p] =
                      [Context(p) EXCEPT !.op = "assign", !.user = u, !.program = prog,
                                   !.cur = r[1],
                                   !.hadActive = (ActiveIds(u) /= {}),
                                   !.storeFailed = fail,
                                   !.err = IF LookupIsFatal(r[2]) THEN r[2] ELSE Nil,
                                   !.pc = IF LookupIsFatal(r[2]) THEN "done"
                                          ELSE IF r[1] /= 0 THEN "update"
                                          ELSE "create"]]
    /\ UNCHANGED <<users, userPrograms, workouts, workoutExercises, liftedWeight, now, planVars>>

\* the flag is flipped on the local copy only, the change is not persisted
AssignDeactivateMutant(p) ==
    /\ req[p].op = "assign" /\ req[p].pc = "update"
    /\ req' = [req EXCEPT ![p].pc = "create", ![p].deactivated = req[p].cur]
    /\ UNCHANGED <<users, userPrograms, workouts, workoutExercises, liftedWeight, now, planVars>>

\* lines 84-89: deactivate it and persist the change
AssignDeactivate(p) ==
    /\ req[p].op = "assign" /\ req[p].pc = "update"
    /\ \E fail \in BOOLEAN :
         IF fail
         THEN /\ req' = [req EXCEPT ![p].pc = "done", ![p].err = ErrStore,
                                    ![p].storeFailed = TRUE]
              /\ UNCHANGED userPrograms
         ELSE IF RowsAffected(req[p].cur) = 0
         THEN /\ req' = [req EXCEPT ![p].pc = "done", ![p].err = ErrNotFound]
              /\ UNCHANGED userPrograms
         ELSE /\ userPrograms' = UpdateUserProgram(req[p].cur, DeactivatedFlag)
              /\ req' = [req EXCEPT ![p].pc = "create", ![p].deactivated = req[p].cur]
    /\ UNCHANGED <<users, workouts, workoutExercises, liftedWeight, now, planVars>>

\* a failed insert puts the previous record back to active
AssignCreateMutant(p) ==
    /\ req[p].op = "assign" /\ req[p].pc = "create"
    /\ \E fail \in BOOLEAN :
         IF CreateUserProgramOk(req[p].user, fail)
         THEN /\ userPrograms' =
                   CreateUserProgram(NewUserProgram(req[p].user, req[p].program, now))
              /\ req' = [req EXCEPT ![p].pc = "done", ![p].at = now,
                                    ![p].created = Len(userPrograms) + 1]
         ELSE /\ req' = [req EXCEPT ![p].pc = "done", ![p].err = ErrStore,
                                    ![p].at = now, ![p].storeFailed = TRUE]
              /\ userPrograms' =
                   IF req[p].deactivated /= 0
                   THEN UpdateUserProgram(req[p].deactivated, TRUE)
                   ELSE userPrograms
    /\ UNCHANGED <<users, workouts, workoutExercises, liftedWeight, now, planVars>>

\* lines 91-99: create the new record, active, start date = time.Now()
AssignCreate(p) ==
    /\ req[p].op = "assign" /\ req[p].pc = "create"
    /\ \E fail \in BOOLEAN :
         IF CreateUserProgramOk(req[p].user, fail)
         THEN /\ userPrograms' =
                   CreateUserProgram(NewUserProgram(req[p].user, req[p].program, now))
              /\ req' = [req EXCEPT ![p].pc = "done", ![p].at = now,
                                    ![p].created = Len(userPrograms) + 1]
         ELSE /\ req' = [req EXCEPT ![p].pc = "done", ![p].err = ErrStore,
                                    ![p].at = now, ![p].storeFailed = TRUE]
              /\ UNCHANGED userPrograms
    /\ UNCHANGED <<users, workouts, workoutExercises, liftedWeight, now, planVars>>

----------------------------------------------------------------------------
(* AuthHandler.Register *)

RegisterProfiles == {[age |-> 30, sex |-> "male", weight |-> 80]}

EmailTaken(e) == \E i \in DOMAIN users : users[i].email = e

\* lines 58-90: reject a known email, else insert the user (email is UNIQUE)
RegisterCreateUser(p, e, prog, prof) ==
    /\ req[p].pc = "idle"
    /\ Len(userPrograms) < MaxUserPrograms
    /\ \E fail \in BOOLEAN :
         IF EmailTaken(e)
         THEN /\ req' = [req EXCEPT ![p] =
                           [Idle EXCEPT !.op = "register", !.pc = "done",
                                        !.err = ErrConflict]]
              /\ UNCHANGED users
         ELSE IF fail \/ Cardinality(DOMAIN users) >= MaxUsers
         THEN /\ req' = [req EXCEPT ![p] =
                           [Idle EXCEPT !.op = "register", !.pc = "done",
                                        !.err = ErrStore, !.storeFailed = TRUE]]
              /\ UNCHANGED users
         ELSE LET id == Cardinality(DOMAIN users) + 1 IN
              /\ users' = [i \in DOMAIN users \cup {id} |->
                             IF i = id
                             THEN [email |-> e, age |-> prof.age, sex |-> prof.sex,
                                   weight |-> prof.weight, program_id |-> prog,
                                   deleted |-> FALSE]
                             ELSE users[i]]
              /\ req' = [req EXCEPT ![p] =
                           [Idle EXCEPT !.op = "register", !.pc = "user_program",
                                        !.user = id, !.program = prog]]
    /\ UNCHANGED <<userPrograms, workouts, workoutExercises, liftedWeight, now, planVars>>

\* lines 93-104: insert the user's first UserProgram, active
RegisterCreateUserProgram(p) ==
    /\ req[p].op = "register" /\ req[p].pc = "user_program"
    /\ \E fail \in BOOLEAN :
         IF CreateUserProgramOk(req[p].user, fail)
         THEN /\ userPrograms' =
                   CreateUserProgram(NewUserProgram(req[p].user, req[p].program, now))
              /\ req' = [req EXCEPT ![p].pc = "done", ![p].at = now,
                                    ![p].created = Len(userPrograms) + 1]
         ELSE /\ req' = [req EXCEPT ![p].pc = "done", ![p].err = ErrStore,
                                    ![p].storeFailed = TRUE]
              /\ UNCHANGED userPrograms
    /\ UNCHANGED <<users, workouts, workoutExercises, liftedWeight, now, planVars>>

----------------------------------------------------------------------------
(* Reference data: the program templates (tables program_workouts and      *)
(* program_workout_exercises).  Program 1 has workouts 1 and 2, program 2  *)
(* has workout 3.  prescribed_weight is in kilograms, 0 = none; exercise 7 *)
(* is not in the modifier table.                                           *)

ProgramWorkouts ==
    [w \in 1..3 |->
        [program_id |-> IF w = 3 THEN 2 ELSE 1, day_of_week |-> IF w = 2 THEN 2 ELSE 1]]

ProgramWorkoutExercises ==
    <<[program_workout_id |-> 1, exercise_id |-> 1, target_rir |-> 2, prescribed_weight |-> 0],
      [program_workout_id |-> 1, exercise_id |-> 3, target_rir |-> 1, prescribed_weight |-> 0],
      [program_workout_id |-> 2, exercise_id |-> 2, target_rir |-> 3, prescribed_weight |-> 40],
      [program_workout_id |-> 3, exercise_id |-> 4, target_rir |-> 0, prescribed_weight |-> 0],
      [program_workout_id |-> 3, exercise_id |-> 5, target_rir |-> 2, prescribed_weight |-> 0],
      [program_workout_id |-> 3, exercise_id |-> 7, target_rir |-> 1, prescribed_weight |-> 0],
      [program_workout_id |-> 2, exercise_id |-> 5, target_rir |-> 1, prescribed_weight |-> 42]>>

\* What the requests of the model name
RequestWorkouts == {1, 3}
LogExerciseIds == {1, 2}
RirArrays == {<<4, 4, 4>>, <<3, 2>>}
LiftedWeights == {500, 600}

----------------------------------------------------------------------------
(* Arithmetic *)

RECURSIVE Sum(_)
Sum(s) == IF s = <<>> THEN 0 ELSE Head(s) + Sum(Tail(s))

\* Go's integer division truncates toward zero
GoDiv(a, b) == IF a >= 0 THEN a \div b ELSE -((-a) \div b)

\* multiples of 2.5 kg, in tenths of a kilogram
PlateStep == 25

\* math.Round(x/2.5)*2.5 for x = num/den tenths of a kilogram, x >= 0:
\* math.Round rounds half away from zero

\* the quotient is truncated to tenths of a kilogram and not rounded to a plate
RoundToPlateMutant(num, den) == num \div den

RoundToPlate(num, den) ==
    ((2 * num + PlateStep * den) \div (2 * PlateStep * den)) * PlateStep

----------------------------------------------------------------------------
(* Progressive overload: calculateAverageRIR, calculateWeightAdjustment *)

\* the mean of the first set only
calculateAverageRIRMutant(rirArray) == <<Head(rirArray), 1>>

\* float64(sum) / float64(len), kept as the fraction <<sum, len>>
calculateAverageRIR(rirArray) == <<Sum(rirArray), Len(rirArray)>>

\* the 5 % tiers tested before the 10 % tiers
calculateWeightAdjustmentMutant(actualRIR, targetRIR) ==
    LET d == actualRIR[2]
        difference == targetRIR * d - actualRIR[1]
    IN  IF d = 0 THEN 100
        ELSE IF difference >= d THEN 95
        ELSE IF difference <= -d THEN 105
        ELSE IF difference >= 2 * d THEN 90
        ELSE IF difference <= -2 * d THEN 110
        ELSE 100

\* difference := targetRIR - actualRIR, scaled by the denominator d of
\* actualRIR; d = 0 is NaN (0/0), for which every comparison is false
calculateWeightAdjustment(actualRIR, targetRIR) ==
    LET d == actualRIR[2]
        difference == targetRIR * d - actualRIR[1]
    IN  IF d = 0 THEN 100
        ELSE IF difference >= 2 * d THEN 90
        ELSE IF difference <= -2 * d THEN 110
        ELSE IF difference >= d THEN 95
        ELSE IF difference <= -d THEN 105
        ELSE 100

\* line 304: currentWeight := 50.0, in tenths of a kilogram
CurrentWeight == 500

----------------------------------------------------------------------------
(* Tables workouts and workout_exercises *)

UserOfSession(i) == userPrograms[workouts[i].user_program_id].user_id

SessionsByType(u, pw) ==
    {i \in DOMAIN workouts :
        UserOfSession(i) = u /\ workouts[i].program_workout_id = pw}

\* the session created first among those of that type
OldestSessionsMutant(S) ==
    {i \in S : \A j \in S : i <= j}

\* ORDER BY w.completed_date DESC LIMIT 1: equal dates come in any order
LatestSessions(S) ==
    {i \in S : \A j \in S : workouts[j].completed_date <= workouts[i].completed_date}

\* the possible results <<id, err>> of GetLastWorkoutSessionByType
GetLastWorkoutSessionByType(u, pw, fail) ==
    IF fail THEN {<<0, ErrStore>>}
    ELSE IF SessionsByType(u, pw) = {} THEN {<<0, ErrNoRows>>}
    ELSE {<<i, Nil>> : i \in LatestSessions(SessionsByType(u, pw))}

\* WHERE workout_id = $1 ORDER BY id: the ids of the logs, ascending
GetExerciseLogsByWorkout(wid) ==
    SelectSeq([i \in 1..Len(workoutExercises) |-> i],
              LAMBDA i : workoutExercises[i].workout_id = wid)

----------------------------------------------------------------------------
(* StartWorkoutSession, CompleteWorkoutSession *)

\* lines 224-246 of the program service
StartWorkoutSession(p, u, pw) ==
    /\ req[p].pc = "idle"
    /\ Len(workouts) < MaxSessions
    /\ \E fail \in BOOLEAN, failInsert \in BOOLEAN :
         \E r \in GetUserActiveProgram(u, fail) :
            IF r[2] /= Nil
            THEN /\ req' = [req EXCEPT ![p] =
                              [Context(p) EXCEPT !.op = "start", !.pc = "done", !.user = u,
                                           !.pw = pw, !.err = r[2],
                                           !.storeFailed = fail]]
                 /\ UNCHANGED workouts
            ELSE IF failInsert
            THEN /\ req' = [req EXCEPT ![p] =
                              [Context(p) EXCEPT !.op = "start", !.pc = "done", !.user = u,
                                           !.pw = pw, !.err = ErrStore,
                                           !.storeFailed = TRUE]]
                 /\ UNCHANGED workouts
            ELSE /\ workouts' = Append(workouts,
                                   [user_program_id |-> r[1], program_workout_id |-> pw,
                                    completed_date |-> now])
                 /\ req' = [req EXCEPT ![p] =
                              [Context(p) EXCEPT !.op = "start", !.pc = "done", !.user = u,
                                           !.pw = pw, !.cur = r[1], !.at = now,
                                           !.session = Len(workouts) + 1]]
    /\ UNCHANGED <<users, userPrograms, workoutExercises, liftedWeight, now, planVars>>

\* the same_number_of_sets constraint is missing
WorkoutExercisesRowOkMutant(log) ==
    /\ log.workout_id \in DOMAIN workouts
    /\ log.program_workout_exercise_id \in DOMAIN ProgramWorkoutExercises
    /\ Len(log.actual_reps) > 0
    /\ Len(log.actual_rir) > 0

\* table workout_exercises: the foreign keys, the two CHECKs on the arrays
\* (array_length of an empty array is NULL) and same_number_of_sets
WorkoutExercisesRowOk(log) ==
    /\ log.workout_id \in DOMAIN workouts
    /\ log.program_workout_exercise_id \in DOMAIN ProgramWorkoutExercises
    /\ Len(log.actual_reps) > 0
    /\ Len(log.actual_rir) > 0
    /\ Len(log.actual_reps) = Len(log.actual_rir)

NewExerciseLog(sessionID, exercise) ==
    [workout_id |-> sessionID,
     program_workout_exercise_id |-> exercise.program_workout_exercise_id,
     actual_reps |-> exercise.actual_reps,
     actual_rir |-> exercise.actual_rir]

\* lines 248-262: one insert per exercise of the request, in order; the
\* first failing insert ends the call, the earlier ones stay.  An insert
\* fails when the store fails or when the table rejects the row.
CompleteWorkoutSession(p, sessionID, exercises, lifted) ==
    /\ req[p].pc = "idle"
    /\ Len(workoutExercises) + Len(exercises) <= MaxLogs
    /\ Len(lifted) = Len(exercises)
    /\ \E done \in 0..Len(exercises) :
         /\ \A i \in 1..done : WorkoutExercisesRowOk(NewExerciseLog(sessionID, exercises[i]))
         /\ workoutExercises' = workoutExercises \o
               [i \in 1..done |-> NewExerciseLog(sessionID, exercises[i])]
         /\ liftedWeight' = liftedWeight \o SubSeq(lifted, 1, done)
         /\ req' = [req EXCEPT ![p] =
                      [Context(p) EXCEPT !.op = "complete", !.pc = "done",
                                   !.session = sessionID, !.created = done,
                                   !.arg = exercises,
                                   !.err =
                                      IF done = Len(exercises) THEN Nil
                                      ELSE IF WorkoutExercisesRowOk(
                                                 NewExerciseLog(sessionID,
                                                                exercises[done + 1]))
                                           THEN ErrStore
                                           ELSE ErrConstraint,
                                   !.storeFailed = (done < Len(exercises))]]
    /\ UNCHANGED <<users, userPrograms, workouts, now, planVars>>

\* the exercise lists a request of the model carries
ExerciseLogRequests ==
    {[program_workout_exercise_id |-> e, actual_reps |-> [i \in 1..Len(r) |-> 8],
      actual_rir |-> r] : e \in LogExerciseIds, r \in RirArrays}

----------------------------------------------------------------------------
(* CalculateNextWorkoutWeights *)

TargetRIR(logId) ==
    ProgramWorkoutExercises[workoutExercises[logId].program_workout_exercise_id].target_rir

\* lines 300-301 for one exercise log
WeightAdjustmentOf(logId) ==
    calculateWeightAdjustment(calculateAverageRIR(workoutExercises[logId].actual_rir),
                              TargetRIR(logId))

\* lines 304-307 for one exercise log
NewWeightOf(logId) == RoundToPlate(CurrentWeight * WeightAdjustmentOf(logId), 100)

\* lines 292-308: the map the loop over the logs leaves; a later log of the
\* same exercise overwrites an earlier one
NextWeightMap(logIds) ==
    LET keys == {workoutExercises[logIds[k]].program_workout_exercise_id :
                    k \in DOMAIN logIds}
        last(e) == CHOOSE k \in DOMAIN logIds :
                      /\ workoutExercises[logIds[k]].program_workout_exercise_id = e
                      /\ \A j \in DOMAIN logIds :
                            workoutExercises[logIds[j]].program_workout_exercise_id = e
                               => j <= k
    IN  [e \in keys |-> NewWeightOf(logIds[last(e)])]

\* lines 276-311
CalculateNextWorkoutWeights(p, u, pw) ==
    /\ req[p].pc = "idle"
    /\ \E fail \in BOOLEAN, failLater \in BOOLEAN :
         \E r \in GetLastWorkoutSessionByType(u, pw, fail) :
            req' = [req EXCEPT ![p] =
               IF r[2] /= Nil
               THEN [Idle EXCEPT !.op = "next", !.pc = "done", !.user = u, !.pw = pw,
                                 !.err = r[2], !.storeFailed = fail]
               ELSE IF r[1] = 0
               THEN [Idle EXCEPT !.op = "next", !.pc = "done", !.user = u, !.pw = pw,
                                 !.err = ErrNoSession]
               ELSE IF failLater
               THEN [Idle EXCEPT !.op = "next", !.pc = "done", !.user = u, !.pw = pw,
                                 !.err = ErrStore, !.storeFailed = TRUE]
               ELSE LET logIds == GetExerciseLogsByWorkout(r[1]) IN
                    [Idle EXCEPT !.op = "next", !.pc = "done", !.user = u, !.pw = pw,
                                 !.session = r[1], !.map = IsMap,
                                 !.weights = NextWeightMap(logIds),
                                 !.adjustments =
                                     [k \in DOMAIN logIds |-> WeightAdjustmentOf(logIds[k])]]]
    /\ UNCHANGED <<users, userPrograms, workouts, workoutExercises, liftedWeight, now, planVars>>

----------------------------------------------------------------------------
(* CalculateInitialWeights: calculateBaseStrength, getExerciseModifier *)

Sexes == {"male", "female", "other"}

\* the bands include their boundaries
AgeFactorMutant(age) ==
    IF age <= 25 THEN <<9 + 10 * GoDiv(age - 13, 120), 10>>
    ELSE IF age >= 35 THEN <<11 - 10 * GoDiv(age - 35, 100), 10>>
    ELSE <<10, 10>>

\* lines 204-208: user.Age is an int, so (user.Age-13)/120 and
\* (user.Age-35)/100 are integer quotients; the factor as a fraction
AgeFactor(age) ==
    IF age < 25 THEN <<9 + 10 * GoDiv(age - 13, 120), 10>>
    ELSE IF age > 35 THEN <<11 - 10 * GoDiv(age - 35, 100), 10>>
    ELSE <<10, 10>>

\* lines 197-211: the base strength in kilograms, as a fraction <<num, den>>
calculateBaseStrength(user) ==
    LET sexFactor == IF user.sex = "male" THEN 12 ELSE 10
        af == AgeFactor(user.age)
    IN  <<user.weight * 6 * sexFactor * af[1], 100 * af[2]>>

\* lines 213-222: the modifier in tenths; a missing key reads as Go's zero value
getExerciseModifier(exerciseID) ==
    LET modifiers == (1 :> 10) @@ (2 :> 8) @@ (3 :> 12) @@ (4 :> 11) @@ (5 :> 5)
    IN  IF exerciseID \in DOMAIN modifiers THEN modifiers[exerciseID] ELSE 0

\* the prescribed weight goes through the rounding as well
InitialWeightOfMutant(user, exercise) ==
    LET base == calculateBaseStrength(user)
    IN  IF exercise.prescribed_weight > 0
        THEN RoundToPlate(10 * exercise.prescribed_weight, 1)
        ELSE RoundToPlate(base[1] * getExerciseModifier(exercise.exercise_id), base[2])

\* lines 181-190 for one template exercise, in tenths of a kilogram
InitialWeightOf(user, exercise) ==
    IF exercise.prescribed_weight > 0
    THEN 10 * exercise.prescribed_weight
    ELSE LET base == calculateBaseStrength(user)
         IN  RoundToPlate(base[1] * getExerciseModifier(exercise.exercise_id), base[2])

\* only the first workout of the program is read
WorkoutsOfProgramMutant(prog) ==
    LET W == {w \in DOMAIN ProgramWorkouts : ProgramWorkouts[w].program_id = prog}
    IN  {w \in W : \A v \in W : w <= v}

\* GetProgramWorkouts, GetProgramWorkoutExercises
WorkoutsOfProgram(prog) ==
    {w \in DOMAIN ProgramWorkouts : ProgramWorkouts[w].program_id = prog}

ExercisesOfWorkout(w) ==
    {e \in DOMAIN ProgramWorkoutExercises :
        ProgramWorkoutExercises[e].program_workout_id = w}

\* lines 166-195
CalculateInitialWeights(p, u, prog) ==
    /\ req[p].pc = "idle"
    /\ u \in DOMAIN users
    /\ \E fail \in BOOLEAN :
         req' = [req EXCEPT ![p] =
            IF fail
            THEN [Idle EXCEPT !.op = "initial", !.pc = "done", !.user = u,
                              !.program = prog, !.err = ErrStore, !.storeFailed = TRUE]
            ELSE LET es == UNION {ExercisesOfWorkout(w) : w \in WorkoutsOfProgram(prog)} IN
                 [Idle EXCEPT !.op = "initial", !.pc = "done", !.user = u,
                              !.program = prog, !.map = IsMap,
                              !.weights =
                                 [e \in es |->
                                    InitialWeightOf(users[u], ProgramWorkoutExercises[e])]]]
    /\ UNCHANGED <<users, userPrograms, workouts, workoutExercises, liftedWeight, now, planVars>>

----------------------------------------------------------------------------
(* UpdateUserProfile.  An update map is a Go map[string]interface{}: a      *)
(* value carries its dynamic type t with its number n or its string s.     *)

IntValue(n) == [t |-> "int", n |-> n, s |-> ""]
FloatValue(n) == [t |-> "float64", n |-> n, s |-> ""]
StringValue(str) == [t |-> "string", n |-> 0, s |-> str]

\* strings.TrimSpace
RECURSIVE TrimLeft(_)
TrimLeft(str) ==
    IF Len(str) > 0 /\ SubSeq(str, 1, 1) = " "
    THEN TrimLeft(SubSeq(str, 2, Len(str))) ELSE str

RECURSIVE TrimRight(_)
TrimRight(str) ==
    IF Len(str) > 0 /\ SubSeq(str, Len(str), Len(str)) = " "
    THEN TrimRight(SubSeq(str, 1, Len(str) - 1)) ELSE str

TrimSpace(str) == TrimRight(TrimLeft(str))

validGoals == {"weight_loss", "muscle_gain", "maintenance", "endurance"}

validActivityLevels ==
    {"sedentary", "lightly_active", "moderately_active", "very_active", "extra_active"}

\* value.(float64), value.(int), value.(string)
IsFloat64(updates, key) == key \in DOMAIN updates /\ updates[key].t = "float64"
IsInt(updates, key) == key \in DOMAIN updates /\ updates[key].t = "int"
IsString(updates, key) == key \in DOMAIN updates /\ updates[key].t = "string"

\* the age and the weight are applied whatever their value
validateAndApplyProfileUpdatesMutant(user, updates) ==
    [user EXCEPT
        !.weight = IF IsFloat64(updates, "weight") THEN updates["weight"].n ELSE @,
        !.height = IF IsFloat64(updates, "height") /\ updates["height"].n >= 30
                       /\ updates["height"].n <= 250
                   THEN updates["height"].n ELSE @,
        !.age = IF IsInt(updates, "age") THEN updates["age"].n ELSE @,
        !.goal = IF IsString(updates, "goal") /\ updates["goal"].s \in validGoals
                 THEN updates["goal"].s ELSE @,
        !.program_id = IF IsInt(updates, "program_id") /\ updates["program_id"].n > 0
                       THEN updates["program_id"].n ELSE @,
        !.activity_level = IF IsString(updates, "activity_level")
                               /\ updates["activity_level"].s \in validActivityLevels
                           THEN updates["activity_level"].s ELSE @,
        !.weekly_budget = IF IsFloat64(updates, "weekly_budget")
                              /\ updates["weekly_budget"].n >= 0
                          THEN updates["weekly_budget"].n ELSE @,
        !.name = IF IsString(updates, "name") /\ TrimSpace(updates["name"].s) /= ""
                 THEN TrimSpace(updates["name"].s) ELSE @]

\* as validateAndApplyProfileUpdates, with a case for the email key
validateAndApplyEmailMutant(user, updates) ==
    [user EXCEPT
        !.email = IF IsString(updates, "email") THEN updates["email"].s ELSE @,
        !.weight = IF IsFloat64(updates, "weight") /\ updates["weight"].n >= 20
                       /\ updates["weight"].n <= 500
                   THEN updates["weight"].n ELSE @,
        !.height = IF IsFloat64(updates, "height") /\ updates["height"].n >= 30
                       /\ updates["height"].n <= 250
                   THEN updates["height"].n ELSE @,
        !.age = IF IsInt(updates, "age") /\ updates["age"].n >= 13
                    /\ updates["age"].n <= 120
                THEN updates["age"].n ELSE @,
        !.goal = IF IsString(updates, "goal") /\ updates["goal"].s \in validGoals
                 THEN updates["goal"].s ELSE @,
        !.program_id = IF IsInt(updates, "program_id") /\ updates["program_id"].n > 0
                       THEN updates["program_id"].n ELSE @,
        !.activity_level = IF IsString(updates, "activity_level")
                               /\ updates["activity_level"].s \in validActivityLevels
                           THEN updates["activity_level"].s ELSE @,
        !.weekly_budget = IF IsFloat64(updates, "weekly_budget")
                              /\ updates["weekly_budget"].n >= 0
                          THEN updates["weekly_budget"].n ELSE @,
        !.name = IF IsString(updates, "name") /\ TrimSpace(updates["name"].s) /= ""
                 THEN TrimSpace(updates["name"].s) ELSE @]

\* lines 98-146: every key is looked at on its own, the keys touch different
\* fields, so the order of the map iteration does not matter; no error
validateAndApplyProfileUpdates(user, updates) ==
    [user EXCEPT
        !.weight = IF IsFloat64(updates, "weight") /\ updates["weight"].n >= 20
                       /\ updates["weight"].n <= 500
                   THEN updates["weight"].n ELSE @,
        !.height = IF IsFloat64(updates, "height") /\ updates["height"].n >= 30
                       /\ updates["height"].n <= 250
                   THEN updates["height"].n ELSE @,
        !.age = IF IsInt(updates, "age") /\ updates["age"].n >= 13
                    /\ updates["age"].n <= 120
                THEN updates["age"].n ELSE @,
        !.goal = IF IsString(updates, "goal") /\ updates["goal"].s \in validGoals
                 THEN updates["goal"].s ELSE @,
        !.program_id = IF IsInt(updates, "program_id") /\ updates["program_id"].n > 0
                       THEN updates["program_id"].n ELSE @,
        !.activity_level = IF IsString(updates, "activity_level")
                               /\ updates["activity_level"].s \in validActivityLevels
                           THEN updates["activity_level"].s ELSE @,
        !.weekly_budget = IF IsFloat64(updates, "weekly_budget")
                              /\ updates["weekly_budget"].n >= 0
                          THEN updates["weekly_budget"].n ELSE @,
        !.name = IF IsString(updates, "name") /\ TrimSpace(updates["name"].s) /= ""
                 THEN TrimSpace(updates["name"].s) ELSE @]

\* name VARCHAR(100)
MaxNameLen == 100

\* the column types and CHECK constraints of table users
UsersRowOk(user) ==
    /\ Len(user.name) <= MaxNameLen
    /\ user.age >= 13 /\ user.age <= 120
    /\ user.sex \in Sexes
    /\ user.height >= 30 /\ user.height <= 250
    /\ user.weight >= 20 /\ user.weight <= 500
    /\ user.activity_level \in validActivityLevels
    /\ user.goal \in validGoals
    /\ user.program_id > 0

\* UPDATE users SET email, name, age, sex, height, weight, activity_level,
\* goal, program_id, weekly_budget WHERE id = $1 AND deleted_at IS NULL:
\* password_hash and deleted_at are not written
UpdateUser(id, user) ==
    [users EXCEPT ![id] = [user EXCEPT !.password_hash = users[id].password_hash,
                                       !.deleted = users[id].deleted]]

\* lines 72-80: read the user, validate and apply the updates on the copy
UpdateUserProfileGetUser(p, u, updates, op) ==
    /\ req[p].pc = "idle"
    /\ \E fail \in BOOLEAN :
         req' = [req EXCEPT ![p] =
            IF fail \/ ~LiveUser(u)
            THEN [Idle EXCEPT !.op = op, !.pc = "done", !.user = u, !.updates = updates,
                              !.err = ErrUserNotFound, !.storeFailed = fail]
            ELSE [Idle EXCEPT !.op = op, !.pc = "update_user", !.user = u,
                              !.updates = updates, !.before = <<users[u]>>,
                              !.local = <<validateAndApplyProfileUpdates(users[u], updates)>>]]
    /\ UNCHANGED <<users, userPrograms, workouts, workoutExercises, liftedWeight, now, planVars>>

\* lines 82-90: persist the copy, return it with a blank password hash
UpdateUserProfileUpdateUser(p) ==
    /\ req[p].pc = "update_user"
    /\ \E fail \in BOOLEAN :
         IF fail \/ ~UsersRowOk(req[p].local[1]) \/ ~LiveUser(req[p].user)
         THEN /\ req' = [req EXCEPT ![p].pc = "done", ![p].err = ErrUpdateUser,
                                    ![p].storeFailed = fail, ![p].local = <<>>]
              /\ UNCHANGED users
         ELSE /\ users' = UpdateUser(req[p].user, req[p].local[1])
              /\ req' = [req EXCEPT ![p].pc = "done",
                                    ![p].local = <<[req[p].local[1] EXCEPT
                                                      !.password_hash = ""]>>]
    /\ UNCHANGED <<userPrograms, workouts, workoutExercises, liftedWeight, now, planVars>>

\* userService.GetUserByID
GetUserByID(p, u) ==
    /\ req[p].pc = "idle"
    /\ \E fail \in BOOLEAN :
         req' = [req EXCEPT ![p] =
            IF fail \/ ~LiveUser(u)
            THEN [Idle EXCEPT !.op = "GetUserByID", !.pc = "done", !.user = u,
                              !.err = ErrGetUser, !.storeFailed = fail]
            ELSE [Idle EXCEPT !.op = "GetUserByID", !.pc = "done", !.user = u,
                              !.local = <<users[u]>>]]
    /\ UNCHANGED <<users, userPrograms, workouts, workoutExercises, liftedWeight, now, planVars>>

\* userRepository.DeleteUser: UPDATE users SET deleted_at = $2 WHERE id = $1
\* AND deleted_at IS NULL; no row affected is an error
DeleteUser(p, u) ==
    /\ req[p].pc = "idle"
    /\ \E fail \in BOOLEAN :
         LET err == IF fail THEN ErrStore
                    ELSE IF ~LiveUser(u) THEN ErrUserGone ELSE Nil
         IN  /\ req' = [req EXCEPT ![p] =
                          [Idle EXCEPT !.op = "DeleteUser", !.pc = "done", !.user = u,
                                       !.err = err, !.storeFailed = fail]]
             /\ users' = IF err = Nil THEN [users EXCEPT ![u].deleted = TRUE] ELSE users
    /\ UNCHANGED <<userPrograms, workouts, workoutExercises, liftedWeight, now, planVars>>

\* a JSON request body: the value of a key is a number or a string
JsonNumber(n) == [json |-> "number", n |-> n, s |-> ""]
JsonString(str) == [json |-> "string", n |-> 0, s |-> str]

\* c.ShouldBindJSON(&updates) into map[string]interface{}: a JSON number
\* becomes a float64, a JSON string a string
ShouldBindJSON(body) ==
    [k \in DOMAIN body |->
        IF body[k].json = "number" THEN FloatValue(body[k].n) ELSE StringValue(body[k].s)]

\* UserHandler.UpdateUser: decode the body, call UpdateUserProfile
UpdateUserHandler(p, u, body) ==
    UpdateUserProfileGetUser(p, u, ShouldBindJSON(body), "http")

----------------------------------------------------------------------------
(* AuthMiddleware and the program handlers mounted behind it.  A token is   *)
(* the id of the user it was issued to, 0 stands for a missing or invalid   *)
(* token.                                                                   *)

\* lines 44-73: an invalid token aborts the request, a valid one puts its
\* user id into the context and the handler runs next
AuthMiddleware(p, token) ==
    /\ req[p].pc = "idle"
    /\ req[p].caller = 0
    /\ req' = [req EXCEPT ![p] =
                 IF token = 0
                 THEN [Idle EXCEPT !.op = "auth", !.pc = "done", !.err = ErrUnauthorized]
                 ELSE [Idle EXCEPT !.caller = token]]
    /\ UNCHANGED <<users, userPrograms, workouts, workoutExercises, liftedWeight, now, planVars>>

\* ProgramHandler.AssignProgram: user_id and program_id come from the body
AssignProgramHandler(p, userID, programID) ==
    /\ req[p].caller /= 0
    /\ AssignGetActive(p, userID, programID)

\* ProgramHandler.StartWorkoutSession: user_id and program_workout_id come
\* from the body
StartWorkoutSessionHandler(p, userID, programWorkoutID) ==
    /\ req[p].caller /= 0
    /\ StartWorkoutSession(p, userID, programWorkoutID)

\* ProgramHandler.CompleteWorkoutSession: the session id comes from the path,
\* the exercises from the body
CompleteWorkoutSessionHandler(p, sessionID, exercises) ==
    /\ req[p].caller /= 0
    /\ CompleteWorkoutSession(p, sessionID, exercises,
                              [i \in 1..Len(exercises) |-> CurrentWeight])

----------------------------------------------------------------------------
(* GetWorkoutHistory, GetUserProgramWithWorkouts *)

\* the user_program_id filter is missing
SessionsOfUserProgramMutant(userProgramID) == DOMAIN workouts

\* FROM workouts WHERE user_program_id = $1
SessionsOfUserProgram(userProgramID) ==
    {i \in DOMAIN workouts : workouts[i].user_program_id = userProgramID}

Min(a, b) == IF a <= b THEN a ELSE b

\* ... ORDER BY completed_date DESC LIMIT $2: the possible results, sequences
\* of session ids; sessions of equal completed_date come in any order
GetWorkoutSessionsByUserProgram(userProgramID, limit) ==
    LET rows == SessionsOfUserProgram(userProgramID)
        k == Min(limit, Cardinality(rows))
    IN  {res \in [1..k -> rows] :
            /\ \A i, j \in 1..k : i < j =>
                  /\ res[i] /= res[j]
                  /\ workouts[res[i]].completed_date >= workouts[res[j]].completed_date
            /\ \A r \in rows :
                  (\A i \in 1..k : res[i] /= r) =>
                     \A i \in 1..k :
                        workouts[res[i]].completed_date >= workouts[r].completed_date}

\* lines 264-274 of the program service; the store rejects a negative LIMIT
GetWorkoutHistory(p, u, limit) ==
    /\ req[p].pc = "idle"
    /\ \E fail \in BOOLEAN, failQuery \in BOOLEAN :
         \E r \in GetUserActiveProgram(u, fail) :
            IF r[2] /= Nil \/ failQuery \/ limit < 0
            THEN req' = [req EXCEPT ![p] =
                           [Idle EXCEPT
                               !.op = "history", !.pc = "done", !.user = u,
                               !.arg = [limit |-> limit],
                               !.cur = r[1],
                               !.err = IF r[2] /= Nil THEN r[2]
                                       ELSE IF failQuery THEN ErrStore
                                       ELSE ErrNegativeLimit,
                               !.storeFailed = fail \/ (r[2] = Nil /\ failQuery)]]
            ELSE \E res \in GetWorkoutSessionsByUserProgram(r[1], limit) :
                    req' = [req EXCEPT ![p] =
                              [Idle EXCEPT
                                  !.op = "history", !.pc = "done", !.user = u,
                                  !.arg = [limit |-> limit],
                                  !.cur = r[1], !.map = IsMap, !.local = <<res>>]]
    /\ UNCHANGED <<users, userPrograms, workouts, workoutExercises, liftedWeight, now, planVars>>

\* lines 102-164 of the program service: the active program, then the
\* program, its workouts and their exercises; any failing read ends the call
GetUserProgramWithWorkouts(p, u) ==
    /\ req[p].pc = "idle"
    /\ \E fail \in BOOLEAN, failDetail \in BOOLEAN :
         \E r \in GetUserActiveProgram(u, fail) :
            req' = [req EXCEPT ![p] =
                      [Idle EXCEPT
                          !.op = "detail", !.pc = "done", !.user = u, !.cur = r[1],
                          !.err = IF r[2] /= Nil THEN r[2]
                                  ELSE IF failDetail THEN ErrStore ELSE Nil,
                          !.storeFailed = fail \/ (r[2] = Nil /\ failDetail),
                          !.local =
                             IF r[2] = Nil /\ ~failDetail
                             THEN <<[user_program |-> r[1],
                                     program |-> userPrograms[r[1]].program_id,
                                     workouts |->
                                        WorkoutsOfProgram(userPrograms[r[1]].program_id)]>>
                             ELSE <<>>]]
    /\ UNCHANGED <<users, userPrograms, workouts, workoutExercises, liftedWeight, now, planVars>>

----------------------------------------------------------------------------
(* Workout service.  Every operation is one request: the lookup, the       *)
(* validation and the write; fail names the store call that fails.         *)

StoreFailures == {"none", "lookup", "write"}

validTypes ==
    {"hypertrophy", "strength", "endurance", "powerlifting", "cardio", "flexibility"}

\* GetWorkoutByID, GetSessionByID, GetExerciseByID: WHERE id = $1 AND deleted_at IS NULL
LiveWorkout(id) == id \in DOMAIN workoutPlans /\ ~workoutPlans[id].deleted
LiveSession(id) == id \in DOMAIN workoutSessions
LiveExercise(id) == id \in DOMAIN sessionExercises

\* the duration is not validated
validateWorkoutMutant(workout) ==
    IF workout.name = "" THEN ErrName
    ELSE IF workout.type \notin validTypes THEN ErrType
    ELSE Nil

\* lines 284-301
validateWorkout(workout) ==
    IF workout.name = "" THEN ErrName
    ELSE IF workout.type \notin validTypes THEN ErrType
    ELSE IF workout.duration_weeks < 1 \/ workout.duration_weeks > 52 THEN ErrDuration
    ELSE Nil

\* lines 217-225 and 244-252
validateExercise(exercise) ==
    IF exercise.sets < 1 \/ exercise.sets > 20 THEN ErrSets
    ELSE IF exercise.reps < 1 \/ exercise.reps > 100 THEN ErrReps
    ELSE IF exercise.weight < 0 \/ exercise.weight > 1000 THEN ErrWeight
    ELSE Nil

\* lines 157-159 and 178-180
validateDay(session) ==
    IF session.day < 1 \/ session.day > 7 THEN ErrDay ELSE Nil

\* the request ends with err; before keeps the tables as the request found them
PlanDone(p, op, arg, err, fail) ==
    req' = [req EXCEPT ![p] =
              [Idle EXCEPT !.op = op, !.pc = "done", !.arg = arg, !.err = err,
                           !.storeFailed = (fail /= "none"),
                           !.before = <<planVars>>]]

NewWorkout(workout) ==
    [user_id |-> workout.user_id, name |-> workout.name, type |-> workout.type,
     duration_weeks |-> workout.duration_weeks, completed |-> FALSE, deleted |-> FALSE]

\* lines 43-54
CreateWorkout(p, workout) ==
    /\ req[p].pc = "idle"
    /\ Len(workoutPlans) < MaxPlans
    /\ \E fail \in StoreFailures :
         LET err == IF fail = "lookup" \/ ~LiveUser(workout.user_id)
                    THEN ErrUserNotFound
                    ELSE IF validateWorkout(workout) /= Nil THEN validateWorkout(workout)
                    ELSE IF fail = "write" THEN ErrStore ELSE Nil
         IN  /\ PlanDone(p, "CreateWorkout", workout, err, fail)
             /\ workoutPlans' = IF err = Nil THEN Append(workoutPlans, NewWorkout(workout))
                                ELSE workoutPlans
    /\ UNCHANGED <<users, userPrograms, workouts, workoutExercises, liftedWeight, now,
                   workoutSessions, sessionExercises>>

\* lines 93-105; workout.id names the row
UpdateWorkout(p, workout) ==
    /\ req[p].pc = "idle"
    /\ \E fail \in StoreFailures :
         LET err == IF fail = "lookup" \/ ~LiveWorkout(workout.id) THEN ErrWorkoutNotFound
                    ELSE IF validateWorkout(workout) /= Nil THEN validateWorkout(workout)
                    ELSE IF fail = "write" THEN ErrStore ELSE Nil
         IN  /\ PlanDone(p, "UpdateWorkout", workout, err, fail)
             /\ workoutPlans' =
                   IF err = Nil
                   THEN [workoutPlans EXCEPT
                            ![workout.id].name = workout.name,
                            ![workout.id].type = workout.type,
                            ![workout.id].duration_weeks = workout.duration_weeks,
                            ![workout.id].completed = workout.completed]
                   ELSE workoutPlans
    /\ UNCHANGED <<users, userPrograms, workouts, workoutExercises, liftedWeight, now,
                   workoutSessions, sessionExercises>>

\* lines 56-62
GetWorkoutByID(p, workoutID) ==
    /\ req[p].pc = "idle"
    /\ \E fail \in {"none", "lookup"} :
         LET err == IF fail = "lookup" \/ ~LiveWorkout(workoutID) THEN ErrGetWorkout
                    ELSE Nil
         IN  PlanDone(p, "GetWorkoutByID", [id |-> workoutID], err, fail)
    /\ UNCHANGED <<users, userPrograms, workouts, workoutExercises, liftedWeight, now,
                   planVars>>

\* lines 107-114: the lookup, then UPDATE workouts SET deleted_at = $2 WHERE
\* id = $1 AND deleted_at IS NULL
DeleteWorkout(p, workoutID) ==
    /\ req[p].pc = "idle"
    /\ \E fail \in StoreFailures :
         LET err == IF fail = "lookup" \/ ~LiveWorkout(workoutID) THEN ErrWorkoutNotFound
                    ELSE IF fail = "write" THEN ErrStore ELSE Nil
         IN  /\ PlanDone(p, "DeleteWorkout", [id |-> workoutID], err, fail)
             /\ workoutPlans' = IF err = Nil
                                THEN [workoutPlans EXCEPT ![workoutID].deleted = TRUE]
                                ELSE workoutPlans
    /\ UNCHANGED <<users, userPrograms, workouts, workoutExercises, liftedWeight, now,
                   workoutSessions, sessionExercises>>

\* fmt.Sprintf("%d-Week %s Program for %s", duration, workoutType, user.Name)
generateWorkoutName(workoutType, duration, user) ==
    ToString(duration) \o "-Week " \o workoutType \o " Program for " \o user.name

\* lines 116-149; the generated sessions stay in the returned value, the
\* repository inserts the workout row only
GenerateWorkout(p, userID, workoutType, duration) ==
    /\ req[p].pc = "idle"
    /\ Len(workoutPlans) < MaxPlans
    /\ \E fail \in StoreFailures :
         LET arg == [user_id |-> userID, type |-> workoutType, duration_weeks |-> duration]
             err == IF fail = "lookup" \/ ~LiveUser(userID) THEN ErrUserNotFound
                    ELSE IF workoutType \notin validTypes THEN ErrType
                    ELSE IF duration < 1 \/ duration > 52 THEN ErrDuration
                    ELSE IF fail = "write" THEN ErrStore ELSE Nil
         IN  /\ PlanDone(p, "GenerateWorkout", arg, err, fail)
             /\ workoutPlans' =
                   IF err = Nil
                   THEN Append(workoutPlans,
                               NewWorkout([arg EXCEPT !.user_id = userID] @@
                                          [name |-> generateWorkoutName(
                                                       workoutType, duration,
                                                       users[userID])]))
                   ELSE workoutPlans
    /\ UNCHANGED <<users, userPrograms, workouts, workoutExercises, liftedWeight, now,
                   workoutSessions, sessionExercises>>

\* lines 151-162
CreateSession(p, session) ==
    /\ req[p].pc = "idle"
    /\ Len(workoutSessions) < MaxPlanSessions
    /\ \E fail \in StoreFailures :
         LET err == IF fail = "lookup" \/ ~LiveWorkout(session.workout_id)
                    THEN ErrWorkoutNotFound
                    ELSE IF validateDay(session) /= Nil THEN validateDay(session)
                    ELSE IF fail = "write" THEN ErrStore ELSE Nil
         IN  /\ PlanDone(p, "CreateSession", session, err, fail)
             /\ workoutSessions' =
                   IF err = Nil
                   THEN Append(workoutSessions,
                               [workout_id |-> session.workout_id, day |-> session.day,
                                completed |-> session.completed])
                   ELSE workoutSessions
    /\ UNCHANGED <<users, userPrograms, workouts, workoutExercises, liftedWeight, now,
                   workoutPlans, sessionExercises>>

\* lines 172-184: UPDATE workout_sessions SET day, completed WHERE id
UpdateSession(p, session) ==
    /\ req[p].pc = "idle"
    /\ \E fail \in StoreFailures :
         LET err == IF fail = "lookup" \/ ~LiveSession(session.id) THEN ErrSessionNotFound
                    ELSE IF validateDay(session) /= Nil THEN validateDay(session)
                    ELSE IF fail = "write" THEN ErrStore ELSE Nil
         IN  /\ PlanDone(p, "UpdateSession", session, err, fail)
             /\ workoutSessions' =
                   IF err = Nil
                   THEN [workoutSessions EXCEPT ![session.id].day = session.day,
                                                ![session.id].completed = session.completed]
                   ELSE workoutSessions
    /\ UNCHANGED <<users, userPrograms, workouts, workoutExercises, liftedWeight, now,
                   workoutPlans, sessionExercises>>

\* the completed flag is not looked at
StartSessionMutant(p, sessionID) ==
    /\ req[p].pc = "idle"
    /\ \E fail \in {"none", "lookup"} :
         LET err == IF fail = "lookup" \/ ~LiveSession(sessionID) THEN ErrSessionNotFound
                    ELSE Nil
         IN  PlanDone(p, "StartSession", [id |-> sessionID], err, fail)
    /\ UNCHANGED <<users, userPrograms, workouts, workoutExercises, liftedWeight, now,
                   planVars>>

\* lines 186-197: a read and a test, nothing is written
StartSession(p, sessionID) ==
    /\ req[p].pc = "idle"
    /\ \E fail \in {"none", "lookup"} :
         LET err == IF fail = "lookup" \/ ~LiveSession(sessionID) THEN ErrSessionNotFound
                    ELSE IF workoutSessions[sessionID].completed THEN ErrAlreadyCompleted
                    ELSE Nil
         IN  PlanDone(p, "StartSession", [id |-> sessionID], err, fail)
    /\ UNCHANGED <<users, userPrograms, workouts, workoutExercises, liftedWeight, now,
                   planVars>>

\* lines 199-209: the session is read, flagged and written back
CompleteSession(p, sessionID) ==
    /\ req[p].pc = "idle"
    /\ \E fail \in StoreFailures :
         LET err == IF fail = "lookup" \/ ~LiveSession(sessionID) THEN ErrSessionNotFound
                    ELSE IF fail = "write" THEN ErrStore ELSE Nil
         IN  /\ PlanDone(p, "CompleteSession", [id |-> sessionID], err, fail)
             /\ workoutSessions' =
                   IF err = Nil
                   THEN [workoutSessions EXCEPT ![sessionID].completed = TRUE]
                   ELSE workoutSessions
    /\ UNCHANGED <<users, userPrograms, workouts, workoutExercises, liftedWeight, now,
                   workoutPlans, sessionExercises>>

\* lines 211-228
LogExercise(p, exercise) ==
    /\ req[p].pc = "idle"
    /\ Len(sessionExercises) < MaxExercises
    /\ \E fail \in StoreFailures :
         LET err == IF fail = "lookup" \/ ~LiveSession(exercise.session_id)
                    THEN ErrSessionNotFound
                    ELSE IF validateExercise(exercise) /= Nil THEN validateExercise(exercise)
                    ELSE IF fail = "write" THEN ErrStore ELSE Nil
         IN  /\ PlanDone(p, "LogExercise", exercise, err, fail)
             /\ sessionExercises' =
                   IF err = Nil
                   THEN Append(sessionExercises,
                               [session_id |-> exercise.session_id, sets |-> exercise.sets,
                                reps |-> exercise.reps, weight |-> exercise.weight])
                   ELSE sessionExercises
    /\ UNCHANGED <<users, userPrograms, workouts, workoutExercises, liftedWeight, now,
                   workoutPlans, workoutSessions>>

\* lines 238-256: UPDATE exercises SET sets, reps, weight WHERE id
UpdateExercise(p, exercise) ==
    /\ req[p].pc = "idle"
    /\ \E fail \in StoreFailures :
         LET err == IF fail = "lookup" \/ ~LiveExercise(exercise.id) THEN ErrExerciseNotFound
                    ELSE IF validateExercise(exercise) /= Nil THEN validateExercise(exercise)
                    ELSE IF fail = "write" THEN ErrStore ELSE Nil
         IN  /\ PlanDone(p, "UpdateExercise", exercise, err, fail)
             /\ sessionExercises' =
                   IF err = Nil
                   THEN [sessionExercises EXCEPT ![exercise.id].sets = exercise.sets,
                                          ![exercise.id].reps = exercise.reps,
                                          ![exercise.id].weight = exercise.weight]
                   ELSE sessionExercises
    /\ UNCHANGED <<users, userPrograms, workouts, workoutExercises, liftedWeight, now,
                   workoutPlans, workoutSessions>>

----------------------------------------------------------------------------
(* The response is written and the worker is free again *)

Return(p) ==
    /\ req[p].pc = "done"
    /\ req' = [req EXCEPT ![p] = Idle]
    /\ UNCHANGED <<users, userPrograms, workouts, workoutExercises, liftedWeight, now, planVars>>

Tick ==
    /\ now < MaxTime
    /\ now' = now + 1
    /\ UNCHANGED <<users, userPrograms, workouts, workoutExercises, liftedWeight, req, planVars>>

----------------------------------------------------------------------------
(* Specifications *)

Init ==
    /\ users = <<>>
    /\ userPrograms = <<>>
    /\ workouts = <<>>
    /\ workoutExercises = <<>>
    /\ liftedWeight = <<>>
    /\ now = 0
    /\ req = [p \in Procs |-> Idle]
    /\ NoPlans

\* Requests served one after the other
Next ==
    \/ \E p \in SeqProcs, u \in 1..MaxUsers, prog \in ProgramIds :
           AllIdle /\ AssignGetActive(p, u, prog)
    \/ \E p \in SeqProcs : AssignDeactivate(p)
    \/ \E p \in SeqProcs : AssignCreate(p)
    \/ \E p \in SeqProcs, e \in Emails, prog \in ProgramIds, prof \in RegisterProfiles :
           AllIdle /\ RegisterCreateUser(p, e, prog, prof)
    \/ \E p \in SeqProcs : RegisterCreateUserProgram(p)
    \/ \E p \in SeqProcs : Return(p)
    \/ Tick

Spec == Init /\ [][Next]_vars

\* The store after every user has registered on program 1 at time 0
RegisteredUsers ==
    [i \in 1..MaxUsers |->
        [email |-> EmailList[i], age |-> 30, sex |-> "male", weight |-> 80,
         program_id |-> 1, deleted |-> FALSE]]

RegisteredPrograms == [i \in 1..MaxUsers |-> NewUserProgram(i, 1, 0)]

InitRegistered ==
    /\ users = RegisteredUsers
    /\ userPrograms = RegisteredPrograms
    /\ workouts = <<>>
    /\ workoutExercises = <<>>
    /\ liftedWeight = <<>>
    /\ now = 0
    /\ req = [p \in Procs |-> Idle]
    /\ NoPlans

\* Assignment requests served concurrently, interleaved at their store calls
NextConcurrent ==
    \/ \E p \in Procs, u \in 1..MaxUsers, prog \in ProgramIds :
           AssignGetActive(p, u, prog)
    \/ \E p \in Procs : AssignDeactivate(p)
    \/ \E p \in Procs : AssignCreate(p)
    \/ \E p \in Procs : Return(p)
    \/ Tick

SpecConcurrent == InitRegistered /\ [][NextConcurrent]_vars

\* The store after user 1 registered on program 1, started a session of
\* workout 1 and was re-assigned to program 2
ProgressionPrograms ==
    Append([RegisteredPrograms EXCEPT ![1].is_active = FALSE], NewUserProgram(1, 2, 0))

FirstSession == [user_program_id |-> 1, program_workout_id |-> 1, completed_date |-> 0]

\* Exercise logs: two sessions of workout 1 (users 1 and 2), the requests
\* complete them and ask for the next weights, one request at a time; lifted
\* is the set of weights the users may have had on the bar
InitLogs ==
    /\ users = RegisteredUsers
    /\ userPrograms = ProgressionPrograms
    /\ workouts = <<FirstSession, [FirstSession EXCEPT !.user_program_id = 2]>>
    /\ workoutExercises = <<>>
    /\ liftedWeight = <<>>
    /\ now = 0
    /\ req = [p \in Procs |-> Idle]
    /\ NoPlans

LogsStep(lifted) ==
    \/ \E p \in SeqProcs, sid \in DOMAIN workouts, ex \in ExerciseLogRequests,
          w \in lifted :
           AllIdle /\ CompleteWorkoutSession(p, sid, <<ex>>, <<w>>)
    \/ \E p \in SeqProcs, u \in 1..MaxUsers, pw \in RequestWorkouts :
           AllIdle /\ CalculateNextWorkoutWeights(p, u, pw)
    \/ \E p \in SeqProcs : Return(p)

NextLogs == LogsStep({CurrentWeight})

SpecLogs == InitLogs /\ [][NextLogs]_vars

NextLifted == LogsStep(LiftedWeights)

SpecLifted == InitLogs /\ [][NextLifted]_vars

\* Sessions: user 1's first session has one logged exercise; the requests start
\* sessions and ask for the next weights, one request at a time
InitSessions ==
    /\ users = RegisteredUsers
    /\ userPrograms = ProgressionPrograms
    /\ workouts = <<FirstSession>>
    /\ workoutExercises =
          <<[workout_id |-> 1, program_workout_exercise_id |-> 1,
             actual_reps |-> <<8, 8, 8>>, actual_rir |-> <<4, 4, 4>>]>>
    /\ liftedWeight = <<CurrentWeight>>
    /\ now = 0
    /\ req = [p \in Procs |-> Idle]
    /\ NoPlans

NextSessions ==
    \/ \E p \in SeqProcs, u \in 1..MaxUsers, pw \in RequestWorkouts :
           AllIdle /\ StartWorkoutSession(p, u, pw)
    \/ \E p \in SeqProcs, u \in 1..MaxUsers, pw \in RequestWorkouts :
           AllIdle /\ CalculateNextWorkoutWeights(p, u, pw)
    \/ \E p \in SeqProcs : Return(p)
    \/ Tick

SpecSessions == InitSessions /\ [][NextSessions]_vars

\* The inputs of the initial-weight calculator: one registered user with any
\* of these body metrics
CalcAges == {13, 19, 24, 25, 30, 35, 36, 40, 60, 120}
BodyWeights == {20, 60, 80, 100, 500}

InitInitialWeights ==
    /\ \E a \in CalcAges, sx \in Sexes, w \in BodyWeights :
         users = <<[email |-> EmailList[1], age |-> a, sex |-> sx, weight |-> w,
                    program_id |-> 1, deleted |-> FALSE]>>
    /\ userPrograms = <<NewUserProgram(1, 1, 0)>>
    /\ workouts = <<>>
    /\ workoutExercises = <<>>
    /\ liftedWeight = <<>>
    /\ now = 0
    /\ req = [p \in Procs |-> Idle]
    /\ NoPlans

NextInitialWeights ==
    \/ \E p \in SeqProcs, u \in 1..MaxUsers, prog \in ProgramIds :
           AllIdle /\ CalculateInitialWeights(p, u, prog)
    \/ \E p \in SeqProcs : Return(p)

SpecInitialWeights == InitInitialWeights /\ [][NextInitialWeights]_vars

\* The inputs of the adjustment: one session with one logged exercise, with
\* any RIR array of up to MaxSets sets of 0..MaxRIR
MaxSets == 3
MaxRIR == 5

AllRirArrays == UNION {[1..n -> 0..MaxRIR] : n \in 1..MaxSets}

InitAdjustment ==
    /\ users = RegisteredUsers
    /\ userPrograms = RegisteredPrograms
    /\ workouts = <<FirstSession>>
    /\ \E e \in DOMAIN ProgramWorkoutExercises, r \in AllRirArrays :
         workoutExercises =
            <<[workout_id |-> 1, program_workout_exercise_id |-> e,
               actual_reps |-> [i \in 1..Len(r) |-> 8], actual_rir |-> r]>>
    /\ liftedWeight = <<CurrentWeight>>
    /\ now = 0
    /\ req = [p \in Procs |-> Idle]
    /\ NoPlans

NextAdjustment ==
    \/ \E p \in SeqProcs, u \in 1..MaxUsers, pw \in RequestWorkouts :
           AllIdle /\ CalculateNextWorkoutWeights(p, u, pw)
    \/ \E p \in SeqProcs : Return(p)

SpecAdjustment == InitAdjustment /\ [][NextAdjustment]_vars

\* Profile updates: the update maps of the callers of the service and the
\* JSON bodies of the HTTP handler, with at most MaxUpdateKeys keys
MaxUpdateKeys == 2

RECURSIVE Repeat(_, _)
Repeat(str, n) == IF n = 0 THEN "" ELSE str \o Repeat(str, n - 1)

LongName == Repeat("x", MaxNameLen + 1)

UpdateValues ==
    [age |-> {IntValue(12), IntValue(13), IntValue(120), IntValue(200), FloatValue(40)},
     weight |-> {FloatValue(500), FloatValue(501)},
     height |-> {FloatValue(30), FloatValue(251)},
     goal |-> {StringValue("endurance"), StringValue("bulk")},
     activity_level |-> {StringValue("lazy")},
     name |-> {StringValue(" Jane "), StringValue("  "), StringValue(LongName)},
     email |-> {StringValue("z@x")}]

MapsOver(values, maxKeys) ==
    UNION {{m \in [K -> UNION {values[k] : k \in K}] : \A k \in K : m[k] \in values[k]} :
              K \in {K \in SUBSET DOMAIN values : Cardinality(K) <= maxKeys}}

UpdateMaps == MapsOver(UpdateValues, MaxUpdateKeys)

JsonValues ==
    [age |-> {JsonNumber(13), JsonNumber(120), JsonNumber(200)},
     weight |-> {JsonNumber(90)},
     name |-> {JsonString("Jane")}]

JsonBodies == MapsOver(JsonValues, MaxUpdateKeys)

ProfileUser(i) ==
    [email |-> EmailList[i], password_hash |-> "hash", name |-> "John", age |-> 30,
     sex |-> "male", height |-> 180, weight |-> 80, activity_level |-> "sedentary",
     goal |-> "maintenance", program_id |-> 1, weekly_budget |-> 0,
     deleted |-> FALSE]

InitProfile ==
    /\ users = [i \in 1..MaxUsers |-> ProfileUser(i)]
    /\ userPrograms = RegisteredPrograms
    /\ workouts = <<>>
    /\ workoutExercises = <<>>
    /\ liftedWeight = <<>>
    /\ now = 0
    /\ req = [p \in Procs |-> Idle]
    /\ NoPlans

NextProfile ==
    \/ \E p \in SeqProcs, updates \in UpdateMaps :
           AllIdle /\ UpdateUserProfileGetUser(p, 1, updates, "profile")
    \/ \E p \in SeqProcs, body \in JsonBodies :
           AllIdle /\ UpdateUserHandler(p, 1, body)
    \/ \E p \in SeqProcs : UpdateUserProfileUpdateUser(p)
    \/ \E p \in SeqProcs : Return(p)

SpecProfile == InitProfile /\ [][NextProfile]_vars

\* Two valid updates of disjoint fields, served concurrently and interleaved
\* at their store calls
DisjointUpdateMaps ==
    {[k \in {"weight"} |-> FloatValue(90)], [k \in {"goal"} |-> StringValue("muscle_gain")]}

NextProfileConcurrent ==
    \/ \E p \in Procs, updates \in DisjointUpdateMaps :
           UpdateUserProfileGetUser(p, 1, updates, "profile")
    \/ \E p \in Procs : UpdateUserProfileUpdateUser(p)
    \/ \E p \in Procs : Return(p)

SpecProfileConcurrent == InitProfile /\ [][NextProfileConcurrent]_vars

\* Update maps that carry the keys of columns the profile update has no case
\* for, next to keys it applies
ProtectedValues ==
    [id |-> {IntValue(2)},
     email |-> {StringValue("z@x")},
     sex |-> {StringValue("female")},
     password_hash |-> {StringValue("other")},
     weight |-> {FloatValue(90)},
     name |-> {StringValue(" Jane ")}]

ProtectedMaps == MapsOver(ProtectedValues, MaxUpdateKeys)

NextProtected ==
    \/ \E p \in SeqProcs, u \in 1..MaxUsers, updates \in ProtectedMaps :
           AllIdle /\ UpdateUserProfileGetUser(p, u, updates, "profile")
    \/ \E p \in SeqProcs : UpdateUserProfileUpdateUser(p)
    \/ \E p \in SeqProcs : Return(p)

SpecProtected == InitProfile /\ [][NextProtected]_vars

----------------------------------------------------------------------------
(* Authenticated requests: every user is registered on program 1 and has   *)
(* one session; the requests carry the token of any user and name any user *)

Tokens == 0..MaxUsers

AuthExercises ==
    {<<[program_workout_exercise_id |-> 1, actual_reps |-> <<8, 8>>,
        actual_rir |-> <<3, 2>>]>>}

InitAuth ==
    /\ users = RegisteredUsers
    /\ userPrograms = RegisteredPrograms
    /\ workouts = [i \in 1..MaxUsers |-> [FirstSession EXCEPT !.user_program_id = i]]
    /\ workoutExercises = <<>>
    /\ liftedWeight = <<>>
    /\ now = 0
    /\ req = [p \in Procs |-> Idle]
    /\ NoPlans

NextAuth ==
    \/ \E p \in SeqProcs, token \in Tokens : AllIdle /\ AuthMiddleware(p, token)
    \/ \E p \in SeqProcs, u \in 1..MaxUsers, prog \in ProgramIds :
           AllIdle /\ AssignProgramHandler(p, u, prog)
    \/ \E p \in SeqProcs : AssignDeactivate(p)
    \/ \E p \in SeqProcs : AssignCreate(p)
    \/ \E p \in SeqProcs, u \in 1..MaxUsers :
           AllIdle /\ StartWorkoutSessionHandler(p, u, 1)
    \/ \E p \in SeqProcs, sid \in 1..MaxUsers, exs \in AuthExercises :
           AllIdle /\ CompleteWorkoutSessionHandler(p, sid, exs)
    \/ \E p \in SeqProcs : Return(p)

SpecAuth == InitAuth /\ [][NextAuth]_vars

----------------------------------------------------------------------------
(* Soft delete: users and workouts are created, read, updated and deleted *)

DeleteWorkoutInputs ==
    {[name |-> "Plan", type |-> "strength", duration_weeks |-> d, completed |-> FALSE] :
        d \in {1, 52}}

DeleteUpdateMaps == {[k \in {"weight"} |-> FloatValue(90)]}

NextDelete ==
    \/ \E p \in SeqProcs, u \in 1..MaxUsers, w \in DeleteWorkoutInputs :
           AllIdle /\ CreateWorkout(p, [user_id |-> u] @@ w)
    \/ \E p \in SeqProcs, id \in 1..MaxPlans, w \in DeleteWorkoutInputs :
           AllIdle /\ UpdateWorkout(p, [id |-> id] @@ w)
    \/ \E p \in SeqProcs, id \in 1..MaxPlans : AllIdle /\ GetWorkoutByID(p, id)
    \/ \E p \in SeqProcs, id \in 1..MaxPlans : AllIdle /\ DeleteWorkout(p, id)
    \/ \E p \in SeqProcs, u \in 1..MaxUsers : AllIdle /\ GetUserByID(p, u)
    \/ \E p \in SeqProcs, u \in 1..MaxUsers : AllIdle /\ DeleteUser(p, u)
    \/ \E p \in SeqProcs, u \in 1..MaxUsers, updates \in DeleteUpdateMaps :
           AllIdle /\ UpdateUserProfileGetUser(p, u, updates, "profile")
    \/ \E p \in SeqProcs : UpdateUserProfileUpdateUser(p)
    \/ \E p \in SeqProcs : Return(p)

SpecDelete == InitProfile /\ [][NextDelete]_vars

----------------------------------------------------------------------------
(* Completing sessions with well-formed and malformed exercise logs.  The  *)
(* store holds two sessions; a request carries up to MaxRequestLogs        *)
(* exercises and names one of the sessions or a session that is not stored *)

CompletionExercises ==
    {[program_workout_exercise_id |-> 1, actual_reps |-> <<8, 8>>, actual_rir |-> <<3, 2>>],
     [program_workout_exercise_id |-> 2, actual_reps |-> <<8>>, actual_rir |-> <<4>>],
     [program_workout_exercise_id |-> 1, actual_reps |-> <<8, 8>>, actual_rir |-> <<3>>],
     [program_workout_exercise_id |-> 1, actual_reps |-> <<8>>, actual_rir |-> <<>>],
     [program_workout_exercise_id |-> 2, actual_reps |-> <<>>, actual_rir |-> <<>>]}

CompletionRequests ==
    UNION {[1..n -> CompletionExercises] : n \in 1..MaxRequestLogs}

NextCompletion ==
    \/ \E p \in SeqProcs, sid \in 1..(Len(workouts) + 1), exs \in CompletionRequests :
           AllIdle /\ CompleteWorkoutSession(p, sid, exs,
                                             [i \in 1..Len(exs) |-> CurrentWeight])
    \/ \E p \in SeqProcs : Return(p)

SpecCompletion == InitLogs /\ [][NextCompletion]_vars

----------------------------------------------------------------------------
(* Operations that need the active program.  User 1 is registered on       *)
(* program 1; the other users were left without a UserProgram by a failed  *)
(* insert at registration.                                                 *)

\* GetWorkoutHistory handler: limit := 10 unless the query names another
DefaultLimit == 10

\* the limits a request may carry
HistoryLimits == {0 - 1, 0, 1, 2, DefaultLimit}

InitActive ==
    /\ users = RegisteredUsers
    /\ userPrograms = <<NewUserProgram(1, 1, 0)>>
    /\ workouts = <<>>
    /\ workoutExercises = <<>>
    /\ liftedWeight = <<>>
    /\ now = 0
    /\ req = [p \in Procs |-> Idle]
    /\ NoPlans

NextActive ==
    \/ \E p \in SeqProcs, u \in 1..MaxUsers, prog \in ProgramIds :
           AllIdle /\ AssignGetActive(p, u, prog)
    \/ \E p \in SeqProcs : AssignDeactivate(p)
    \/ \E p \in SeqProcs : AssignCreate(p)
    \/ \E p \in SeqProcs, u \in 1..MaxUsers, pw \in RequestWorkouts :
           AllIdle /\ StartWorkoutSession(p, u, pw)
    \/ \E p \in SeqProcs, u \in 1..MaxUsers :
           AllIdle /\ GetWorkoutHistory(p, u, DefaultLimit)
    \/ \E p \in SeqProcs, u \in 1..MaxUsers :
           AllIdle /\ GetUserProgramWithWorkouts(p, u)
    \/ \E p \in SeqProcs : Return(p)

SpecActive == InitActive /\ [][NextActive]_vars

\* The workout history of user 1 while sessions are started, time passes and
\* the user is assigned to other programs
NextHistory ==
    \/ \E p \in SeqProcs, prog \in ProgramIds :
           AllIdle /\ AssignGetActive(p, 1, prog)
    \/ \E p \in SeqProcs : AssignDeactivate(p)
    \/ \E p \in SeqProcs : AssignCreate(p)
    \/ \E p \in SeqProcs : AllIdle /\ StartWorkoutSession(p, 1, 1)
    \/ \E p \in SeqProcs, limit \in HistoryLimits :
           AllIdle /\ GetWorkoutHistory(p, 1, limit)
    \/ \E p \in SeqProcs : AllIdle /\ CalculateNextWorkoutWeights(p, 1, 1)
    \/ \E p \in SeqProcs : Return(p)
    \/ Tick

SpecHistory == InitActive /\ [][NextHistory]_vars

----------------------------------------------------------------------------
(* Workout service: requests with values at and just outside every bound *)

\* a user that exists and one that does not
PlanUserIDs == {1, MaxUsers + 1}

WorkoutTypes == {"strength", "yoga"}

Durations == {0, 1, 52, 53}

WorkoutInputs ==
    {[name |-> "Plan", type |-> "strength", duration_weeks |-> d, completed |-> FALSE] :
        d \in Durations}
    \cup {[name |-> "", type |-> "strength", duration_weeks |-> 53, completed |-> FALSE],
          [name |-> "Plan", type |-> "yoga", duration_weeks |-> 0, completed |-> FALSE]}

Days == {0, 1, 7, 8}

SessionInputs ==
    {[day |-> d, completed |-> FALSE] : d \in Days} \cup {[day |-> 1, completed |-> TRUE]}

\* the first row of a table and a row the table does not hold
RowIDs(max) == {1, max + 1}

ExerciseInputs ==
    {[sets |-> 1, reps |-> 1, weight |-> 0],
     [sets |-> 20, reps |-> 100, weight |-> 1000],
     [sets |-> 0, reps |-> 1, weight |-> 0],
     [sets |-> 21, reps |-> 1, weight |-> 0],
     [sets |-> 1, reps |-> 0, weight |-> 0],
     [sets |-> 1, reps |-> 101, weight |-> 0],
     [sets |-> 1, reps |-> 1, weight |-> 0 - 1],
     [sets |-> 1, reps |-> 1, weight |-> 1001]}

InitPlans ==
    /\ users = [i \in 1..MaxUsers |-> ProfileUser(i)]
    /\ userPrograms = RegisteredPrograms
    /\ workouts = <<>>
    /\ workoutExercises = <<>>
    /\ liftedWeight = <<>>
    /\ now = 0
    /\ req = [p \in Procs |-> Idle]
    /\ NoPlans

NextPlans ==
    \/ \E p \in SeqProcs, u \in PlanUserIDs, w \in WorkoutInputs :
           AllIdle /\ CreateWorkout(p, [user_id |-> u] @@ w)
    \/ \E p \in SeqProcs, id \in RowIDs(MaxPlans), w \in WorkoutInputs :
           AllIdle /\ UpdateWorkout(p, [id |-> id] @@ w)
    \/ \E p \in SeqProcs, u \in PlanUserIDs, t \in WorkoutTypes, d \in Durations :
           AllIdle /\ GenerateWorkout(p, u, t, d)
    \/ \E p \in SeqProcs, id \in RowIDs(MaxPlans), s \in SessionInputs :
           AllIdle /\ CreateSession(p, [workout_id |-> id] @@ s)
    \/ \E p \in SeqProcs, id \in RowIDs(MaxPlanSessions), s \in SessionInputs :
           AllIdle /\ UpdateSession(p, [id |-> id] @@ s)
    \/ \E p \in SeqProcs, id \in RowIDs(MaxPlanSessions) :
           AllIdle /\ StartSession(p, id)
    \/ \E p \in SeqProcs, id \in RowIDs(MaxPlanSessions) :
           AllIdle /\ CompleteSession(p, id)
    \/ \E p \in SeqProcs, id \in RowIDs(MaxPlanSessions), e \in ExerciseInputs :
           AllIdle /\ LogExercise(p, [session_id |-> id] @@ e)
    \/ \E p \in SeqProcs, id \in RowIDs(MaxExercises), e \in ExerciseInputs :
           AllIdle /\ UpdateExercise(p, [id |-> id] @@ e)
    \/ \E p \in SeqProcs : Return(p)

SpecPlans == InitPlans /\ [][NextPlans]_vars

----------------------------------------------------------------------------
(* Program assignment: the active-program invariant *)

Quiescent == \A p \in Procs : req[p].pc \in {"idle", "done"}

ProgramsOf(u) == {i \in DOMAIN userPrograms : userPrograms[i].user_id = u}

\* C1: after any sequence of completed, non-overlapping Register and
\* AssignProgramToUser operations, whatever store call failed, every user
\* has at most one active UserProgram.
C1_AtMostOneActiveSequential ==
    Quiescent => \A u \in 1..MaxUsers : Cardinality(ActiveIds(u)) <= 1

\* a user re-assigned successfully (one active record, one inactive) next to a
\* user left without any active record
C1_Witness ==
    /\ Quiescent
    /\ \E u \in DOMAIN users :
         Cardinality(ProgramsOf(u)) >= 2 /\ Cardinality(ActiveIds(u)) = 1
    /\ \E u \in DOMAIN users :
         Cardinality(ProgramsOf(u)) >= 1 /\ ActiveIds(u) = {}

\* C2: in every reachable state, also when the store steps of concurrent
\* AssignProgramToUser requests for one user interleave, at most one
\* UserProgram of a user is active.
C2_AtMostOneActiveConcurrent ==
    \A u \in DOMAIN users : \A i, j \in ActiveIds(u) : i = j

\* C3: a successful AssignProgramToUser(user, B) for a user active on A first
\* persists A as inactive, then inserts the record for B, active, with the
\* (calendar) date of the assignment time as start date; the two are never
\* active together and at the end B's record is the user's only active one.
C3_DeactivateThenCreate ==
    \A p \in Procs :
        req[p].op = "assign" =>
            /\ Cardinality(ActiveIds(req[p].user)) <= 1
            /\ (req[p].pc = "create" /\ req[p].deactivated /= 0) =>
                  /\ ~userPrograms[req[p].deactivated].is_active
                  /\ ActiveIds(req[p].user) = {}
            /\ (req[p].pc = "done" /\ req[p].err = Nil /\ req[p].deactivated /= 0) =>
                  /\ ~userPrograms[req[p].deactivated].is_active
                  /\ req[p].created = Len(userPrograms)
                  /\ req[p].created > req[p].deactivated
                  /\ ActiveIds(req[p].user) = {req[p].created}
                  /\ userPrograms[req[p].created] =
                        [user_id |-> req[p].user, program_id |-> req[p].program,
                         start_date |-> req[p].at \div TicksPerDay, is_active |-> TRUE]

\* program B assigned on the second day to a user who was active on program A
C3_Witness ==
    \E p \in Procs :
        /\ req[p].op = "assign" /\ req[p].pc = "done" /\ req[p].err = Nil
        /\ req[p].deactivated /= 0
        /\ userPrograms[req[p].deactivated].program_id /= req[p].program
        /\ req[p].at >= TicksPerDay

\* C4: AssignProgramToUser for an existing user without an active UserProgram
\* tolerates the no-row result of the lookup and, the store working, creates
\* one active UserProgram for the requested program.
C4_NoActiveProgramIsTolerated ==
    \A p \in Procs :
        (/\ req[p].op = "assign" /\ req[p].pc = "done"
         /\ req[p].user \in DOMAIN users
         /\ ~req[p].hadActive /\ ~req[p].storeFailed) =>
            /\ req[p].err = Nil
            /\ req[p].created /= 0
            /\ ActiveIds(req[p].user) = {req[p].created}

\* C5: when the deactivation succeeded and the creation failed, the call
\* returns the error, the previous record stays inactive and the user has no
\* active UserProgram.
C5_FailedCreateLeavesNoneActive ==
    \A p \in Procs :
        (/\ req[p].op = "assign" /\ req[p].pc = "done"
         /\ req[p].deactivated /= 0 /\ req[p].created = 0) =>
            /\ req[p].err /= Nil
            /\ ~userPrograms[req[p].deactivated].is_active
            /\ ActiveIds(req[p].user) = {}

C5_Witness ==
    \E p \in Procs :
        /\ req[p].op = "assign" /\ req[p].pc = "done"
        /\ req[p].deactivated /= 0 /\ req[p].created = 0
        /\ req[p].err = ErrStore
        /\ Cardinality(ProgramsOf(req[p].user)) = 1

----------------------------------------------------------------------------
(* Progressive overload *)

Multipliers == {90, 95, 100, 105, 110}

\* m is the multiplier of the tier table for the difference num/den, den > 0
InTier(num, den, m) ==
    /\ m \in Multipliers
    /\ num >= 2 * den => m = 90
    /\ num <= -2 * den => m = 110
    /\ (den <= num /\ num < 2 * den) => m = 95
    /\ (-2 * den < num /\ num <= -den) => m = 105
    /\ (-den < num /\ num < den) => m = 100

LogsOfSession(sid) ==
    {i \in DOMAIN workoutExercises : workoutExercises[i].workout_id = sid}

\* C6: calculateWeightAdjustment maps every difference = targetRIR - averageRIR
\* to exactly one multiplier of {0.90, 0.95, 1.00, 1.05, 1.10}: >= 2 gives
\* 0.90, <= -2 gives 1.10, >= 1 gives 0.95, <= -1 gives 1.05, else 1.00.
C6_AdjustmentTiers ==
    \A p \in Procs :
        (req[p].op = "next" /\ req[p].map = IsMap /\ req[p].session = 1) =>
            /\ Len(req[p].adjustments) = 1
            /\ LET log == workoutExercises[1]
                   target == ProgramWorkoutExercises[log.program_workout_exercise_id].target_rir
               IN  InTier(target * Len(log.actual_rir) - Sum(log.actual_rir),
                          Len(log.actual_rir), req[p].adjustments[1])

\* a difference of exactly 1 (target 2, RIR 1 in each of two sets) gives 0.95
C6_Witness ==
    \E p \in Procs :
        /\ req[p].op = "next" /\ req[p].map = IsMap
        /\ workoutExercises[1].program_workout_exercise_id = 1
        /\ workoutExercises[1].actual_rir = <<1, 1>>
        /\ req[p].adjustments = <<95>>

\* C7: for every exercise log of the selected session the multiplier applied
\* is the one of difference = targetRIR of the log's ProgramWorkoutExercise
\* minus the mean of the log's actual RIR array; target 2 with RIR [4,4,4]
\* gives difference -2 and multiplier 1.10.
C7_AdjustmentPerLog ==
    \A p \in Procs :
        (req[p].op = "next" /\ req[p].map = IsMap) =>
            LET ids == LogsOfSession(req[p].session) IN
            /\ Len(req[p].adjustments) = Cardinality(ids)
            /\ \A i \in ids :
                  LET k == Cardinality({j \in ids : j <= i})
                      log == workoutExercises[i]
                      e == log.program_workout_exercise_id
                      n == Len(log.actual_rir)
                  IN  /\ InTier(ProgramWorkoutExercises[e].target_rir * n
                                   - Sum(log.actual_rir), n, req[p].adjustments[k])
                      /\ (ProgramWorkoutExercises[e].target_rir = 2
                            /\ log.actual_rir = <<4, 4, 4>>)
                           => req[p].adjustments[k] = 110
                      /\ e \in DOMAIN req[p].weights

\* a session with two logs: target 2 with RIR [4,4,4], then target 1 with RIR [3,2]
C7_Witness ==
    \E p \in Procs :
        /\ req[p].op = "next" /\ req[p].map = IsMap
        /\ req[p].adjustments = <<110, 105>>
        /\ \E i \in LogsOfSession(req[p].session) :
              /\ workoutExercises[i].program_workout_exercise_id = 1
              /\ workoutExercises[i].actual_rir = <<4, 4, 4>>

\* C8: the weight suggested for an exercise is the weight the user last used
\* for that exercise times the tier multiplier, rounded to the nearest 2.5.
C8_NextWeightFromLastUsedWeight ==
    \A p \in Procs :
        (req[p].op = "next" /\ req[p].map = IsMap) =>
            \A i \in LogsOfSession(req[p].session) :
                LET e == workoutExercises[i].program_workout_exercise_id
                    isLast == \A j \in LogsOfSession(req[p].session) :
                                 workoutExercises[j].program_workout_exercise_id = e
                                    => j <= i
                    n == Len(workoutExercises[i].actual_rir)
                    diff == ProgramWorkoutExercises[e].target_rir * n
                               - Sum(workoutExercises[i].actual_rir)
                IN  isLast =>
                       \E m \in Multipliers :
                          /\ InTier(diff, n, m)
                          /\ 100 * (2 * req[p].weights[e] - PlateStep)
                                <= 2 * liftedWeight[i] * m
                          /\ 2 * liftedWeight[i] * m
                                < 100 * (2 * req[p].weights[e] + PlateStep)
                          /\ req[p].weights[e] % PlateStep = 0

\* C9: the result rests on the session with the greatest completion timestamp
\* among all sessions of the user for the program workout; without such a
\* session the call returns an error and no weight map, which no computed
\* result does.
C9_LatestSessionOrError ==
    \A p \in Procs :
        (req[p].op = "next" /\ req[p].pc = "done") =>
            LET S == {i \in DOMAIN workouts :
                        /\ workouts[i].program_workout_id = req[p].pw
                        /\ userPrograms[workouts[i].user_program_id].user_id = req[p].user}
            IN  /\ (req[p].map = IsMap) = (req[p].err = Nil)
                /\ S = {} =>
                      /\ req[p].err /= Nil /\ req[p].map = NoMap /\ req[p].weights = <<>>
                      /\ ~req[p].storeFailed => req[p].err \in {ErrNoRows, ErrNoSession}
                /\ req[p].map = IsMap =>
                      /\ req[p].session \in S
                      /\ \A j \in S : workouts[j].completed_date
                                         <= workouts[req[p].session].completed_date
                      /\ DOMAIN req[p].weights =
                            {workoutExercises[i].program_workout_exercise_id :
                                i \in LogsOfSession(req[p].session)}

\* two sessions of one user and workout, the later one logged and selected
C9_Witness ==
    \E p \in Procs :
        /\ req[p].op = "next" /\ req[p].map = IsMap
        /\ req[p].session = 2
        /\ workouts[1].program_workout_id = workouts[2].program_workout_id
        /\ UserOfSession(1) = UserOfSession(2)
        /\ workouts[1].completed_date < workouts[2].completed_date
        /\ workouts[1].user_program_id /= workouts[2].user_program_id
        /\ LogsOfSession(1) /= {}

----------------------------------------------------------------------------
(* Initial weights *)

\* the age factor of the specification, as a fraction
SpecAgeFactor(age) ==
    IF age < 25 THEN <<108 + (age - 13), 120>>
    ELSE IF age > 35 THEN <<110 - (age - 35), 100>>
    ELSE <<1, 1>>

\* C10: without a prescribed weight the initial weight is round(v/2.5)*2.5,
\* v = bodyWeight * 0.6 * (1.2 if male) * ageFactor * exerciseModifier, with
\* ageFactor = 0.9 + (age-13)/120 below 25, 1.1 - (age-35)/100 above 35 and
\* 1 otherwise; 80 kg, male, 30, bench press gives 57.5.
C10_InitialWeightFormula ==
    \A p \in Procs :
        (req[p].op = "initial" /\ req[p].map = IsMap) =>
            \A e \in DOMAIN req[p].weights :
                LET x == ProgramWorkoutExercises[e]
                    user == users[req[p].user]
                    af == SpecAgeFactor(user.age)
                    modifier == CASE x.exercise_id = 1 -> 10
                                  [] x.exercise_id = 2 -> 8
                                  [] x.exercise_id = 3 -> 12
                                  [] x.exercise_id = 4 -> 11
                                  [] x.exercise_id = 5 -> 5
                                  [] OTHER -> 0
                    \* v in tenths of a kilogram is num / den
                    num == user.weight * 6 * (IF user.sex = "male" THEN 12 ELSE 10)
                              * af[1] * modifier
                    den == 100 * af[2]
                    w == req[p].weights[e]
                IN  (x.prescribed_weight = 0 /\ x.exercise_id \in 1..5) =>
                       /\ w % PlateStep = 0
                       /\ den * (2 * w - PlateStep) <= 2 * num
                       /\ 2 * num < den * (2 * w + PlateStep)


\* the exercises of a finished calculation that have no prescribed weight
ComputedEntries(p) ==
    {e \in DOMAIN req[p].weights : ProgramWorkoutExercises[e].prescribed_weight = 0}

\* C11 (as stated): for every valid user and every exercise of the program the
\* initial weight is non-negative and an exact multiple of 2.5.
C11_EveryWeightIsPlateMultiple ==
    \A p \in Procs :
        (req[p].op = "initial" /\ req[p].map = IsMap) =>
            \A e \in DOMAIN req[p].weights :
                req[p].weights[e] >= 0 /\ req[p].weights[e] % PlateStep = 0

\* C11 (amended): for every valid user and every exercise of the program
\* without a prescribed weight the initial weight is non-negative and an exact
\* multiple of 2.5; a prescribed weight is returned as it is, whatever it is.
C11_ComputedWeightIsPlateMultiple ==
    \A p \in Procs :
        (req[p].op = "initial" /\ req[p].map = IsMap) =>
            /\ \A e \in ComputedEntries(p) :
                  req[p].weights[e] >= 0 /\ req[p].weights[e] % PlateStep = 0
            /\ \A e \in DOMAIN req[p].weights \ ComputedEntries(p) :
                  req[p].weights[e] = 10 * ProgramWorkoutExercises[e].prescribed_weight

\* a computed weight whose exact value (100 * 0.6 * 0.9 * 1.2 = 64.8) is not a
\* multiple of 2.5
C11_Witness ==
    \E p \in Procs :
        /\ req[p].op = "initial" /\ req[p].map = IsMap
        /\ users[req[p].user].weight = 100 /\ users[req[p].user].age = 19
        /\ users[req[p].user].sex = "female"
        /\ 2 \in ComputedEntries(p) /\ req[p].weights[2] = 650

\* C12: at age 25, at age 35 and between them no age multiplier is applied: the
\* base strength is bodyWeight * 0.6 * sexFactor.
C12_NoAgeMultiplierFrom25To35 ==
    \A p \in Procs :
        (/\ req[p].op = "initial" /\ req[p].map = IsMap
         /\ users[req[p].user].age \in 25..35) =>
            LET user == users[req[p].user]
                base == calculateBaseStrength(user)
                sexFactor == IF user.sex = "male" THEN 12 ELSE 10
            IN  /\ 100 * base[1] = user.weight * 6 * sexFactor * base[2]
                /\ \A e \in ComputedEntries(p) :
                      req[p].weights[e] =
                         RoundToPlate(user.weight * 6 * sexFactor
                                         * getExerciseModifier(
                                              ProgramWorkoutExercises[e].exercise_id),
                                      100)

\* users of 25 and of 35 years: 80 kg, male, bench press gives 57.5
C12_Witness ==
    \E p \in Procs :
        /\ req[p].op = "initial" /\ req[p].map = IsMap
        /\ users[req[p].user].age \in {25, 35}
        /\ users[req[p].user].weight = 80 /\ users[req[p].user].sex = "male"
        /\ 1 \in ComputedEntries(p) /\ req[p].weights[1] = 575

\* C13: an exercise whose template has a non-zero prescribed weight gets
\* exactly that weight, whatever the body metrics, the exercise and the
\* rounding would give.
C13_PrescribedWeightUnchanged ==
    \A p \in Procs :
        (req[p].op = "initial" /\ req[p].map = IsMap) =>
            \A e \in DOMAIN req[p].weights :
                ProgramWorkoutExercises[e].prescribed_weight /= 0 =>
                    req[p].weights[e] = 10 * ProgramWorkoutExercises[e].prescribed_weight

\* a prescribed weight of 42 kg, which is no multiple of 2.5, for a 500 kg user
C13_Witness ==
    \E p \in Procs :
        /\ req[p].op = "initial" /\ req[p].map = IsMap
        /\ users[req[p].user].weight = 500
        /\ \E e \in DOMAIN req[p].weights :
              /\ ProgramWorkoutExercises[e].prescribed_weight = 42
              /\ req[p].weights[e] = 420

\* C14: an exercise id outside the modifier table has a defined non-zero
\* modifier, so the weight suggested to a valid user for such an exercise
\* (no prescribed weight) is not 0.
C14_UnknownExerciseHasDefault ==
    \A p \in Procs :
        (req[p].op = "initial" /\ req[p].map = IsMap) =>
            \A e \in ComputedEntries(p) :
                ProgramWorkoutExercises[e].exercise_id \notin 1..5 =>
                    /\ getExerciseModifier(ProgramWorkoutExercises[e].exercise_id) /= 0
                    /\ req[p].weights[e] > 0

\* C15: on success the map has exactly one entry for each
\* ProgramWorkoutExercise of every ProgramWorkout of the program and no other
\* entry; when a repository read fails the call returns the error and no map.
C15_OneEntryPerTemplateExercise ==
    \A p \in Procs :
        (req[p].op = "initial" /\ req[p].pc = "done") =>
            /\ (req[p].err = Nil) = (req[p].map = IsMap)
            /\ req[p].storeFailed =>
                  req[p].err /= Nil /\ req[p].map = NoMap /\ req[p].weights = <<>>
            /\ req[p].map = IsMap =>
                  DOMAIN req[p].weights =
                     {e \in DOMAIN ProgramWorkoutExercises :
                         ProgramWorkouts[ProgramWorkoutExercises[e].program_workout_id]
                            .program_id = req[p].program}

\* program 1: two workouts, four template exercises
C15_Witness ==
    \E p \in Procs :
        /\ req[p].op = "initial" /\ req[p].map = IsMap /\ req[p].program = 1
        /\ DOMAIN req[p].weights = {1, 2, 3, 7}


----------------------------------------------------------------------------
(* Profile updates *)

\* the validation gates of the specification: right type and within the range
GateAccepts(key, v) ==
    CASE key = "age" -> v.t = "int" /\ v.n >= 13 /\ v.n <= 120
      [] key = "weight" -> v.t = "float64" /\ v.n >= 20 /\ v.n <= 500
      [] key = "height" -> v.t = "float64" /\ v.n >= 30 /\ v.n <= 250
      [] key = "goal" -> v.t = "string" /\ v.s \in validGoals
      [] key = "activity_level" -> v.t = "string" /\ v.s \in validActivityLevels
      [] key = "name" -> v.t = "string" /\ TrimSpace(v.s) /= ""
      [] OTHER -> FALSE

GateValue(key, v) ==
    IF v.t /= "string" THEN v.n ELSE IF key = "name" THEN TrimSpace(v.s) ELSE v.s

\* a finished UpdateUserProfile call that found its user and met no failure of
\* the store itself
ProfileCallDone(p) ==
    /\ req[p].op \in {"profile", "http"} /\ req[p].pc = "done"
    /\ req[p].before /= <<>> /\ ~req[p].storeFailed

\* C16: every key of the update map is validated on its own: a key with an
\* out-of-range or wrong-typed value leaves its field as it was, every key with
\* a valid value is applied in the same call, and the call does not fail
\* because of a value of the map.
C16_PerFieldValidation ==
    \A p \in Procs :
        ProfileCallDone(p) =>
            /\ req[p].err = Nil
            /\ \A k \in DOMAIN req[p].updates :
                  users[req[p].user][k] =
                     IF GateAccepts(k, req[p].updates[k])
                     THEN GateValue(k, req[p].updates[k])
                     ELSE req[p].before[1][k]

UserInRange(user) ==
    /\ user.age >= 13 /\ user.age <= 120
    /\ user.height >= 30 /\ user.height <= 250
    /\ user.weight >= 20 /\ user.weight <= 500
    /\ user.activity_level \in validActivityLevels
    /\ user.goal \in validGoals

\* C17: users that start within the ranges (age 13..120, height 30..250,
\* weight 20..500, activity level and goal in their sets) stay within them
\* under any sequence of UpdateUserProfile calls, and the ranges are enforced
\* before persistence: the row handed to UpdateUser is within them already.
C17_RangesPreserved ==
    /\ \A u \in DOMAIN users : UserInRange(users[u])
    /\ \A p \in Procs :
          req[p].pc = "update_user" => UserInRange(req[p].local[1])

\* after the age and the weight were moved to their upper bounds, an update
\* with weight 501 and an invalid activity level has been served
C17_Witness ==
    \E p \in Procs :
        /\ ProfileCallDone(p) /\ req[p].err = Nil
        /\ DOMAIN req[p].updates = {"weight", "activity_level"}
        /\ req[p].updates["weight"].n = 501
        /\ users[req[p].user].weight = 500 /\ users[req[p].user].age = 120

\* C18: an update whose age lies in 13..120 sets the stored age to that value,
\* also when the map comes from the JSON body of the UpdateUser handler, where
\* the number arrives as a float64.
C18_ValidAgeIsApplied ==
    \A p \in Procs :
        (/\ ProfileCallDone(p) /\ req[p].err = Nil
         /\ "age" \in DOMAIN req[p].updates
         /\ req[p].updates["age"].n >= 13 /\ req[p].updates["age"].n <= 120
         /\ \/ req[p].updates["age"].t = "int"
            \/ req[p].op = "http" /\ req[p].updates["age"].t = "float64") =>
            users[req[p].user].age = req[p].updates["age"].n

----------------------------------------------------------------------------
(* Workout service *)

ValidationErrors == {ErrName, ErrType, ErrDuration, ErrDay, ErrSets, ErrReps, ErrWeight}

DurationInBounds(w) == w.duration_weeks >= 1 /\ w.duration_weeks <= 52
DayInBounds(s) == s.day >= 1 /\ s.day <= 7
ExerciseInBounds(e) ==
    /\ e.sets >= 1 /\ e.sets <= 20
    /\ e.reps >= 1 /\ e.reps <= 100
    /\ e.weight >= 0 /\ e.weight <= 1000

\* the finished request carried a value outside the bounds of its operation
OutOfBoundsRequest(p) ==
    /\ req[p].pc = "done"
    /\ \/ /\ req[p].op \in {"CreateWorkout", "UpdateWorkout", "GenerateWorkout"}
          /\ ~DurationInBounds(req[p].arg)
       \/ /\ req[p].op \in {"CreateSession", "UpdateSession"}
          /\ ~DayInBounds(req[p].arg)
       \/ /\ req[p].op \in {"LogExercise", "UpdateExercise"}
          /\ ~ExerciseInBounds(req[p].arg)

\* the record the finished request looked up first exists
ParentFound(p) ==
    /\ ~req[p].storeFailed
    /\ CASE req[p].op \in {"CreateWorkout", "GenerateWorkout"} ->
                LiveUser(req[p].arg.user_id)
         [] req[p].op = "UpdateWorkout" -> LiveWorkout(req[p].arg.id)
         [] req[p].op = "CreateSession" -> LiveWorkout(req[p].arg.workout_id)
         [] req[p].op = "UpdateSession" -> LiveSession(req[p].arg.id)
         [] req[p].op = "LogExercise" -> LiveSession(req[p].arg.session_id)
         [] req[p].op = "UpdateExercise" -> LiveExercise(req[p].arg.id)
         [] OTHER -> FALSE

StoredWithinBounds ==
    /\ \A i \in DOMAIN workoutPlans : DurationInBounds(workoutPlans[i])
    /\ \A i \in DOMAIN workoutSessions : DayInBounds(workoutSessions[i])
    /\ \A i \in DOMAIN sessionExercises : ExerciseInBounds(sessionExercises[i])

----------------------------------------------------------------------------
(* Operations that need the active program *)

NeedsActiveProgram == {"start", "history", "detail"}

\* worker p starts and finishes one of the three operations in this step
ServesActiveRequest(p) ==
    /\ req[p].pc = "idle"
    /\ req'[p].pc = "done"
    /\ req'[p].op \in NeedsActiveProgram

\* C20: StartWorkoutSession, GetWorkoutHistory and GetUserProgramWithWorkouts
\* for a user without active UserProgram return an error and no session is
\* created; a session StartWorkoutSession creates is one new row, attached
\* to a UserProgram that was active for the user when the call read it.
C20_ActiveProgramRequired ==
    [][\A p \in Procs :
          ServesActiveRequest(p) =>
             /\ ActiveIds(req'[p].user) = {} =>
                   /\ req'[p].err /= Nil
                   /\ workouts' = workouts
             /\ workouts' /= workouts =>
                   /\ req'[p].op = "start"
                   /\ req'[p].err = Nil
                   /\ Len(workouts') = Len(workouts) + 1
                   /\ SubSeq(workouts', 1, Len(workouts)) = workouts
                   /\ workouts'[Len(workouts')].user_program_id
                         \in ActiveIds(req'[p].user)]_vars

\* a session is attached to a UserProgram assigned later, and a start
\* request of a user without active program has ended with the no-rows error
C20_Witness ==
    /\ \E i \in DOMAIN workouts :
          /\ workouts[i].user_program_id > 1
          /\ userPrograms[workouts[i].user_program_id].user_id = 1
    /\ \E p \in Procs :
          /\ req[p].pc = "done"
          /\ req[p].op = "start"
          /\ ActiveIds(req[p].user) = {}
          /\ req[p].err = ErrNoRows

----------------------------------------------------------------------------
(* Completed sessions *)

\* worker p serves one request of operation op in this step
ServesPlanRequest(p, op) ==
    /\ req[p].pc = "idle"
    /\ req'[p].pc = "done"
    /\ req'[p].op = op

\* the request of this step names a stored session that is completed
OnCompletedSession(p) ==
    /\ LiveSession(req'[p].arg.id)
    /\ workoutSessions[req'[p].arg.id].completed

\* C21: StartSession of a completed session returns 'session already
\* completed' (when its read succeeds) and no StartSession changes the store;
\* CompleteSession leaves a completed session completed; a completed flag is
\* reset by nothing but an UpdateSession of that session with completed false.
C21_CompletedSessionStaysCompleted ==
    [][/\ \A p \in Procs :
          /\ ServesPlanRequest(p, "StartSession") =>
                /\ UNCHANGED <<users, userPrograms, workouts, workoutExercises,
                               liftedWeight, now, planVars>>
                /\ (OnCompletedSession(p) /\ ~req'[p].storeFailed) =>
                      req'[p].err = ErrAlreadyCompleted
                /\ OnCompletedSession(p) => req'[p].err /= Nil
          /\ (ServesPlanRequest(p, "CompleteSession") /\ OnCompletedSession(p)) =>
                workoutSessions'[req'[p].arg.id].completed
       /\ \A i \in DOMAIN workoutSessions :
             (workoutSessions[i].completed /\ ~workoutSessions'[i].completed) =>
                \E p \in Procs :
                   /\ ServesPlanRequest(p, "UpdateSession")
                   /\ req'[p].arg.id = i
                   /\ ~req'[p].arg.completed]_vars

\* a session of day 7 - created uncompleted, so completed by CompleteSession -
\* has been started again and the request was turned down
C21_Witness ==
    \E p \in Procs :
       /\ req[p].pc = "done"
       /\ req[p].op = "StartSession"
       /\ req[p].err = ErrAlreadyCompleted
       /\ workoutSessions[req[p].arg.id].day = 7
       /\ workoutSessions[req[p].arg.id].completed

----------------------------------------------------------------------------
(* Exercise logs *)

WellFormed(e) ==
    /\ Len(e.actual_reps) > 0
    /\ Len(e.actual_reps) = Len(e.actual_rir)

\* the finished request completed a session
CompletionDone(p) == req[p].pc = "done" /\ req[p].op = "complete"

\* C22: every stored exercise log has non-empty reps and RIR arrays of equal
\* length; a CompleteWorkoutSession request with a malformed exercise returns
\* an error and has stored no log for that exercise.
C22_LogsAreWellFormed ==
    /\ \A i \in DOMAIN workoutExercises : WellFormed(workoutExercises[i])
    /\ \A p \in Procs :
          CompletionDone(p) =>
             \A k \in DOMAIN req[p].arg :
                ~WellFormed(req[p].arg[k]) =>
                   /\ req[p].err /= Nil
                   /\ req[p].created < k

\* a request of a well-formed exercise followed by one whose arrays differ in
\* length has ended: the first is stored, the second was rejected by the table
C22_Witness ==
    \E p \in Procs :
       /\ CompletionDone(p)
       /\ Len(req[p].arg) = 2
       /\ WellFormed(req[p].arg[1])
       /\ Len(req[p].arg[2].actual_reps) = 2
       /\ Len(req[p].arg[2].actual_rir) = 1
       /\ req[p].created = 1
       /\ req[p].err = ErrConstraint

\* C23: when an insert of a CompleteWorkoutSession request fails, none of the
\* logs of that request remains stored.
C23_LogsCreatedTransactionally ==
    \A p \in Procs :
       (CompletionDone(p) /\ req[p].err /= Nil) => req[p].created = 0

----------------------------------------------------------------------------
(* Soft delete *)

NotFoundErrors ==
    {ErrUserNotFound, ErrGetUser, ErrUserGone, ErrWorkoutNotFound, ErrGetWorkout,
     ErrWorkoutGone}

UserOps == {"GetUserByID", "DeleteUser", "profile"}
WorkoutOps == {"GetWorkoutByID", "DeleteWorkout", "UpdateWorkout"}

\* worker p takes up a request in this step
TakesRequest(p) == req[p].pc = "idle" /\ req'[p].pc /= "idle"

\* the request ends in this very step with an error, a not-found error
\* unless the store failed
TurnedDown(p) ==
    /\ req'[p].pc = "done"
    /\ req'[p].err /= Nil
    /\ ~req'[p].storeFailed => req'[p].err \in NotFoundErrors

\* C24: no step removes a row of users or workouts or changes a deleted row
\* (so deleted_at is never cleared); get, update and delete of a deleted
\* user or workout fail as not found.
C24_SoftDeleteOnly ==
    [][/\ Len(users') >= Len(users)
       /\ Len(workoutPlans') >= Len(workoutPlans)
       /\ \A u \in DOMAIN users : users[u].deleted => users'[u] = users[u]
       /\ \A w \in DOMAIN workoutPlans :
             workoutPlans[w].deleted => workoutPlans'[w] = workoutPlans[w]
       /\ \A p \in Procs :
             /\ (/\ TakesRequest(p)
                 /\ req'[p].op \in UserOps
                 /\ req'[p].user \in DOMAIN users
                 /\ users[req'[p].user].deleted) => TurnedDown(p)
             /\ (/\ TakesRequest(p)
                 /\ req'[p].op \in WorkoutOps
                 /\ req'[p].arg.id \in DOMAIN workoutPlans
                 /\ workoutPlans[req'[p].arg.id].deleted) => TurnedDown(p)]_vars

\* a deleted user whose profile had been updated still has its row, a deleted
\* workout still has its row, and a second delete of the workout was turned down
C24_Witness ==
    /\ \E u \in DOMAIN users : users[u].deleted /\ users[u].weight = 90
    /\ \E p \in Procs :
          /\ req[p].pc = "done"
          /\ req[p].op = "DeleteWorkout"
          /\ req[p].arg.id \in DOMAIN workoutPlans
          /\ workoutPlans[req[p].arg.id].deleted
          /\ req[p].err = ErrWorkoutNotFound
          /\ ~req[p].storeFailed

----------------------------------------------------------------------------
(* Sessions that were started but have no logs yet *)

\* the sessions of workout pw of user u that have at least one exercise log
LoggedSessions(u, pw) ==
    {i \in DOMAIN workouts :
        /\ workouts[i].program_workout_id = pw
        /\ userPrograms[workouts[i].user_program_id].user_id = u
        /\ \E l \in DOMAIN workoutExercises : workoutExercises[l].workout_id = i}

\* C25: when the user has a logged session of the program workout,
\* CalculateNextWorkoutWeights answers from a session that has logs, however
\* many sessions were started since: the result is never the empty map.
C25_UnloggedSessionDoesNotHideLogs ==
    \A p \in Procs :
       (/\ req[p].pc = "done"
        /\ req[p].op = "next"
        /\ req[p].err = Nil
        /\ LoggedSessions(req[p].user, req[p].pw) /= {}) =>
           /\ req[p].session \in LoggedSessions(req[p].user, req[p].pw)
           /\ req[p].weights /= <<>>

----------------------------------------------------------------------------
(* Workout history *)

HistoryDone(p) == req[p].pc = "done" /\ req[p].op = "history" /\ req[p].err = Nil

\* C26: GetWorkoutHistory returns sessions of the user's active UserProgram
\* only, each once, latest completion first, at most limit of them and never
\* leaving out a later session for an earlier one - so no session attached to
\* a deactivated UserProgram; CalculateNextWorkoutWeights takes the latest
\* session of the user whatever UserProgram it is attached to.
C26_HistoryOfActiveProgram ==
    \A p \in Procs :
       /\ HistoryDone(p) =>
             LET res == req[p].local[1]
                 date(i) == workouts[i].completed_date
             IN  /\ req[p].cur \in ActiveIds(req[p].user)
                 /\ Len(res) = Min(req[p].arg.limit,
                                   Cardinality(SessionsOfUserProgram(req[p].cur)))
                 /\ \A i \in DOMAIN res :
                       /\ res[i] \in DOMAIN workouts
                       /\ workouts[res[i]].user_program_id = req[p].cur
                       /\ userPrograms[workouts[res[i]].user_program_id].is_active
                 /\ \A i, j \in DOMAIN res :
                       i < j => (res[i] /= res[j] /\ date(res[i]) >= date(res[j]))
                 /\ \A r \in SessionsOfUserProgram(req[p].cur) :
                       (\A i \in DOMAIN res : res[i] /= r) =>
                          \A i \in DOMAIN res : date(res[i]) >= date(r)
       /\ (req[p].pc = "done" /\ req[p].op = "next" /\ req[p].err = Nil) =>
             req[p].session \in LatestSessions(SessionsByType(req[p].user, req[p].pw))

\* right after a reassignment the history with the default limit is empty
\* although the user has a session, attached to the deactivated UserProgram
C26_Witness ==
    \E p \in Procs :
       /\ HistoryDone(p)
       /\ req[p].arg.limit = DefaultLimit
       /\ req[p].local[1] = <<>>
       /\ req[p].cur > 1
       /\ \E i \in DOMAIN workouts :
             /\ userPrograms[workouts[i].user_program_id].user_id = req[p].user
             /\ ~userPrograms[workouts[i].user_program_id].is_active

----------------------------------------------------------------------------
(* Sessions and the program of their UserProgram *)

\* C27: every stored session names a program workout of the program of the
\* UserProgram it is attached to.
C27_SessionWorkoutBelongsToProgram ==
    \A i \in DOMAIN workouts :
       ProgramWorkouts[workouts[i].program_workout_id].program_id
          = userPrograms[workouts[i].user_program_id].program_id

----------------------------------------------------------------------------
(* Authenticated requests *)

OwnerOfUserProgram(id) == userPrograms[id].user_id
OwnerOfSession(id) == OwnerOfUserProgram(workouts[id].user_program_id)

\* C28: an authenticated request deactivates or creates UserPrograms of the
\* token's user only, and creates sessions and exercise logs of the token's
\* user only.
C28_OnlyOwnStateChanges ==
    \A p \in Procs :
       req[p].caller /= 0 =>
          /\ req[p].op = "assign" =>
                /\ req[p].deactivated /= 0 =>
                      OwnerOfUserProgram(req[p].deactivated) = req[p].caller
                /\ req[p].created /= 0 =>
                      OwnerOfUserProgram(req[p].created) = req[p].caller
          /\ (req[p].op = "start" /\ req[p].session /= 0) =>
                OwnerOfSession(req[p].session) = req[p].caller
          /\ (req[p].op = "complete" /\ req[p].created > 0) =>
                OwnerOfSession(req[p].session) = req[p].caller

----------------------------------------------------------------------------
(* Concurrent profile updates *)

\* worker p has returned from a successful update of field key alone
UpdatedOnly(p, key) ==
    /\ req[p].pc = "done"
    /\ req[p].op = "profile"
    /\ req[p].err = Nil
    /\ DOMAIN req[p].updates = {key}

\* C29: after an update of the weight and an update of the goal of the same
\* user have both returned, the stored user has the new weight and the new
\* goal.
C29_DisjointUpdatesBothStored ==
    \A p, q \in Procs :
       (/\ p /= q
        /\ req[p].user = req[q].user
        /\ UpdatedOnly(p, "weight")
        /\ UpdatedOnly(q, "goal")) =>
           /\ users[req[p].user].weight = req[p].updates["weight"].n
           /\ users[req[q].user].goal = req[q].updates["goal"].s

----------------------------------------------------------------------------
(* Frame of the profile update *)

ProtectedKeys == {"id", "email", "sex", "password_hash"}

\* worker p returns from UpdateUserProfile in this step
ProfileReturns(p) ==
    /\ req[p].op = "profile"
    /\ req[p].pc /= "done"
    /\ req'[p].pc = "done"

\* C30: a step of UpdateUserProfile keeps every user at its id with its
\* email, sex and password hash, changes no row but the one of the user it
\* was called for, and a call that returns without error returns a user
\* whose password hash is blank.
C30_ProfileUpdateFrame ==
    [][\A p \in Procs :
          (req[p].op = "profile" \/ req'[p].op = "profile") =>
             /\ DOMAIN users' = DOMAIN users
             /\ \A u \in DOMAIN users :
                   /\ users'[u].email = users[u].email
                   /\ users'[u].sex = users[u].sex
                   /\ users'[u].password_hash = users[u].password_hash
                   /\ u /= req'[p].user => users'[u] = users[u]
             /\ (ProfileReturns(p) /\ req'[p].err = Nil) =>
                   /\ Len(req'[p].local) = 1
                   /\ req'[p].local[1].password_hash = ""]_vars

\* an update map with a protected key and the weight has been served: the
\* weight is stored, the stored password hash is still set
C30_Witness ==
    \E p \in Procs :
       /\ req[p].op = "profile"
       /\ req[p].pc = "done"
       /\ req[p].err = Nil
       /\ "weight" \in DOMAIN req[p].updates
       /\ DOMAIN req[p].updates \cap ProtectedKeys /= {}
       /\ users[req[p].user].weight = 90
       /\ req[p].before[1].weight = 80
       /\ users[req[p].user].password_hash = "hash"
       /\ req[p].local[1].password_hash = ""

====
